---- MODULE Spec2Model ----
(***************************************************************************)
(* A model of graphtransliterator.GraphTransliterator (core.py):          *)
(* construction with the ambiguity check, match_at over the matching      *)
(* graph, tokenize, transliterate, pruned_of and the dump/load round trip. *)
(*                                                                         *)
(* Conventions.  Python lists are sequences; a Python index i is the      *)
(* sequence index i+1 (see TokAt).  A string (input, production, output)   *)
(* is a sequence of one-character strings.  An absent (None) or empty      *)
(* constraint list is <<>>: the code tests them with "or []" and "if x:".  *)
(* The None returned by match_at is the integer None.  Costs are the      *)
(* library's floats scaled by 1000 and truncated.                         *)
(***************************************************************************)
EXTENDS Integers, Sequences, FiniteSets, TLC

VARIABLES gt, derived, call

vars == <<gt, derived, call>>

(***************************************************************************)
(* Bounds of the model.                                                    *)
(***************************************************************************)
MaxRules == 3
MaxInterior == 2
MaxInputLen == 2

None == 0 - 1

(***************************************************************************)
(* Settings shared by every instance of the model: the token -> classes    *)
(* mapping (self._tokens) and the whitespace policy.                       *)
(***************************************************************************)
SettingsTokens ==
    [t \in {"a", "b", " "} |->
        CASE t = "a" -> {"class1", "any"}
          [] t = "b" -> {"class1", "class2", "any"}
          [] t = " " -> {"wb", "any"}]

TokenSet == DOMAIN SettingsTokens

ClassSet == UNION {SettingsTokens[t] : t \in TokenSet}

WhitespaceDefault == " "

WhitespaceTokenClass == "wb"

tokens_by_class_of(tokens) ==
    [c \in UNION {tokens[t] : t \in DOMAIN tokens} |->
        {t \in DOMAIN tokens : c \in tokens[t]}]

(***************************************************************************)
(* Generic helpers.                                                        *)
(***************************************************************************)
Get(d, k) == IF k \in DOMAIN d THEN d[k] ELSE <<>>

Put(d, k, v) == [x \in (DOMAIN d) \cup {k} |-> IF x = k THEN v ELSE d[x]]

\* tokens[i] of a Python list, negative indices counting from the end
TokAt(tokens, i) == IF i >= 0 THEN tokens[i + 1] ELSE tokens[Len(tokens) + i + 1]

RECURSIVE InsertBy(_, _, _)
\* insert x after every element whose key is <= key[x] (stable)
InsertBy(sorted, x, key) ==
    IF sorted = <<>> THEN <<x>>
    ELSE IF key[sorted[Len(sorted)]] <= key[x] THEN Append(sorted, x)
    ELSE Append(InsertBy(SubSeq(sorted, 1, Len(sorted) - 1), x, key),
                sorted[Len(sorted)])

RECURSIVE SortedBy(_, _)
\* Python's sorted(seq, key=...): stable, ascending
SortedBy(seq, key) ==
    IF seq = <<>> THEN <<>>
    ELSE InsertBy(SortedBy(SubSeq(seq, 1, Len(seq) - 1), key), seq[Len(seq)], key)

(***************************************************************************)
(* Transliteration rules.                                                  *)
(***************************************************************************)
count_of_prev(rule) == Len(rule.prev_classes) + Len(rule.prev_tokens)

count_of_curr_and_next(rule) ==
    Len(rule.tokens) + Len(rule.next_tokens) + Len(rule.next_classes)

count_of_tokens(rule) ==
    Len(rule.prev_classes) + Len(rule.prev_tokens) + Len(rule.tokens)
        + Len(rule.next_tokens) + Len(rule.next_classes)

\* floor(1000 * log2(1 + 1 / (1 + n))) for n = 1..10
CostTable == <<584, 415, 321, 263, 222, 192, 169, 152, 137, 125>>

cost_of(n) == CostTable[n]

transliteration_rule_of(production, prev_classes, prev_tokens, toks, next_tokens, next_classes) ==
    [production |-> production,
     prev_classes |-> prev_classes,
     prev_tokens |-> prev_tokens,
     tokens |-> toks,
     next_tokens |-> next_tokens,
     next_classes |-> next_classes,
     cost |-> cost_of(Len(prev_classes) + Len(prev_tokens) + Len(toks)
                      + Len(next_tokens) + Len(next_classes))]

sort_rules_by_cost_keeps_declared(rules) == rules

sort_rules_by_cost(rules) ==
    LET idx == [i \in 1..Len(rules) |-> i]
        key == [i \in 1..Len(rules) |-> rules[i].cost]
        order == SortedBy(idx, key)
    IN [i \in 1..Len(rules) |-> rules[order[i]]]

(***************************************************************************)
(* The matching graph (initialize._graph_from).  graph.node is a list of  *)
(* node dictionaries, node key k being graph.node[k+1] here; graph.edge    *)
(* maps <<source, target>> to the edge dictionary.                         *)
(***************************************************************************)
NodeAt(graph, node_key) == graph.node[node_key + 1]

HasKey(d, k) == k \in DOMAIN d

constraints_of(rule) ==
    LET all == [prev_classes |-> rule.prev_classes,
                prev_tokens |-> rule.prev_tokens,
                next_tokens |-> rule.next_tokens,
                next_classes |-> rule.next_classes]
    IN [c \in {c \in DOMAIN all : all[c] # <<>>} |-> all[c]]

RECURSIVE add_tokens(_, _, _, _)
\* the walk along rule.tokens from parent_key, creating missing token nodes
\* and lowering the cost of each edge passed to the rule's cost
add_tokens(graph, rule, i, parent_key) ==
    IF i > Len(rule.tokens) THEN [graph |-> graph, parent_key |-> parent_key]
    ELSE
        LET token == rule.tokens[i]
            token_children == Get(NodeAt(graph, parent_key), "token_children")
            found == token \in DOMAIN token_children
            token_node_key == IF found THEN token_children[token]
                              ELSE Len(graph.node)
            g1 == IF found THEN graph
                  ELSE [node |->
                            Append([graph.node EXCEPT ![parent_key + 1] =
                                        Put(@, "token_children",
                                            Put(token_children, token,
                                                token_node_key))],
                                   [type |-> "token", token |-> token]),
                        edge |-> Put(graph.edge, <<parent_key, token_node_key>>,
                                     [token |-> token, cost |-> 1000])]
            curr_cost == g1.edge[<<parent_key, token_node_key>>].cost
            g2 == IF curr_cost > rule.cost
                  THEN [g1 EXCEPT !.edge[<<parent_key, token_node_key>>].cost =
                                      rule.cost]
                  ELSE g1
        IN add_tokens(g2, rule, i + 1, token_node_key)

add_rule(graph, rule_key, rule) ==
    LET walked == add_tokens(graph, rule, 1, 0)
        g == walked.graph
        parent_key == walked.parent_key
        rule_node_key == Len(g.node)
        rule_children == Append(Get(NodeAt(g, parent_key), "rule_children"),
                                rule_node_key)
        constraints == constraints_of(rule)
        edge_to_rule == IF DOMAIN constraints = {}
                        THEN [cost |-> rule.cost]
                        ELSE [cost |-> rule.cost, constraints |-> constraints]
    IN [node |->
            Append([g.node EXCEPT ![parent_key + 1] =
                        Put(@, "rule_children", rule_children)],
                   [type |-> "rule", rule_key |-> rule_key, rule |-> rule,
                    accepting |-> TRUE]),
        edge |-> Put(g.edge, <<parent_key, rule_node_key>>, edge_to_rule)]

RECURSIVE add_rules(_, _, _)
add_rules(graph, rules, k) ==
    IF k > Len(rules) THEN graph
    ELSE add_rules(add_rule(graph, k - 1, rules[k]), rules, k + 1)

\* second pass: the children of a node, per next token, ordered by edge cost
ordered_children_of(graph, node_key) ==
    LET node == NodeAt(graph, node_key)
        rule_children_keys == Get(node, "rule_children")
        token_children == Get(node, "token_children")
        edge_cost == [k \in 0..(Len(graph.node) - 1) |->
                         IF <<node_key, k>> \in DOMAIN graph.edge
                         THEN graph.edge[<<node_key, k>>].cost ELSE 0]
        for_rules == IF rule_children_keys # <<>>
                     THEN [x \in {"__rules__"} |->
                              SortedBy(rule_children_keys, edge_cost)]
                     ELSE <<>>
        for_tokens == [token \in DOMAIN token_children |->
                          SortedBy(<<token_children[token]>> \o rule_children_keys,
                                   edge_cost)]
    IN [x \in (DOMAIN for_rules) \cup (DOMAIN for_tokens) |->
           IF x \in DOMAIN for_tokens THEN for_tokens[x] ELSE for_rules[x]]

finished_node(graph, node_key) ==
    LET node == NodeAt(graph, node_key)
        kept == (DOMAIN node) \ {"rule_children", "token_children"}
    IN [f \in kept \cup {"ordered_children"} |->
           IF f = "ordered_children" THEN ordered_children_of(graph, node_key)
           ELSE node[f]]

graph_from(rules) ==
    LET built == add_rules([node |-> <<[type |-> "Start"]>>, edge |-> <<>>],
                           rules, 1)
    IN [node |-> [k \in 1..Len(built.node) |-> finished_node(built, k - 1)],
        edge |-> built.edge]

(***************************************************************************)
(* GraphTransliterator._match_tokens, _match_constraints and match_at.     *)
(***************************************************************************)
match_tokens(self, start_i, c_value, tokens, check_prev, check_next, by_class) ==
    IF check_prev /\ start_i < 0 THEN FALSE
    ELSE IF check_next /\ start_i + Len(c_value) > Len(tokens) THEN FALSE
    ELSE \A i \in 0..(Len(c_value) - 1) :
            IF by_class
            THEN c_value[i + 1] \in self.tokens[TokAt(tokens, start_i + i)]
            ELSE TokAt(tokens, start_i + i) = c_value[i + 1]

match_constraints(self, source, target, token_i, tokens) ==
    LET target_edge == self.graph.edge[<<source, target>>]
        constraints == Get(target_edge, "constraints")
        num_tokens == Len(NodeAt(self.graph, target).rule.tokens)
        prev_tokens == Get(constraints, "prev_tokens")
        next_tokens == Get(constraints, "next_tokens")
        ok(c_type) ==
            LET c_value == constraints[c_type]
            IN CASE c_type = "prev_tokens" ->
                      match_tokens(self, token_i - num_tokens - Len(c_value),
                                   c_value, tokens, TRUE, FALSE, FALSE)
                 [] c_type = "next_tokens" ->
                      match_tokens(self, token_i, c_value, tokens,
                                   FALSE, TRUE, FALSE)
                 [] c_type = "prev_classes" ->
                      match_tokens(self,
                                   token_i - num_tokens - Len(prev_tokens)
                                       - Len(c_value),
                                   c_value, tokens, TRUE, FALSE, TRUE)
                 [] c_type = "next_classes" ->
                      match_tokens(self, token_i + Len(next_tokens), c_value,
                                   tokens, FALSE, TRUE, TRUE)
    IN \A c_type \in DOMAIN constraints : ok(c_type)

\* the stack after _append_children(node_key, token_i); the left end of the
\* deque is the head of the sequence
append_children(self, tokens, stack, node_key, token_i) ==
    LET ordered_children == Get(NodeAt(self.graph, node_key), "ordered_children")
        children == Get(ordered_children, TokAt(tokens, token_i))
        rules_keys == Get(ordered_children, "__rules__")
        pushed(keys) == [k \in 1..Len(keys) |-> <<keys[k], node_key, token_i>>]
    IN IF DOMAIN ordered_children = {} THEN stack
       ELSE IF children # <<>> THEN pushed(children) \o stack
       ELSE IF rules_keys # <<>> THEN pushed(rules_keys) \o stack
       ELSE stack

RECURSIVE match_loop(_, _, _, _, _)
\* the "while stack" loop of match_at
match_loop(self, tokens, match_all, stack, matches) ==
    IF stack = <<>> THEN (IF match_all THEN matches ELSE None)
    ELSE
        LET node_key == Head(stack)[1]
            parent_key == Head(stack)[2]
            token_i == Head(stack)[3]
            curr_node == NodeAt(self.graph, node_key)
            next_i == IF token_i < Len(tokens) - 1 THEN token_i + 1 ELSE token_i
        IN IF HasKey(curr_node, "accepting")
              /\ match_constraints(self, parent_key, node_key, token_i, tokens)
           THEN IF match_all
                THEN match_loop(self, tokens, match_all, Tail(stack),
                                Append(matches, curr_node.rule_key))
                ELSE curr_node.rule_key
           ELSE match_loop(self, tokens, match_all,
                           append_children(self, tokens, Tail(stack), node_key,
                                           next_i),
                           matches)

match_at_single_returns_last(self, token_i, tokens, match_all) ==
    LET matches == match_loop(self, tokens, TRUE,
                              append_children(self, tokens, <<>>, 0, token_i), <<>>)
    IN IF match_all THEN matches
       ELSE IF matches = <<>> THEN None
       ELSE matches[Len(matches)]

match_at(self, token_i, tokens, match_all) ==
    match_loop(self, tokens, match_all,
               append_children(self, tokens, <<>>, 0, token_i), <<>>)

(***************************************************************************)
(* GraphTransliterator.check_for_ambiguity.  Rule indices are 1-based      *)
(* here; the result is TRUE when AmbiguousTransliterationRulesException is *)
(* raised.                                                                 *)
(***************************************************************************)
prev_tokens_possible(rule, tokens_by_class) ==
    [k \in 1..Len(rule.prev_classes) |-> tokens_by_class[rule.prev_classes[k]]]
        \o [k \in 1..Len(rule.prev_tokens) |-> {rule.prev_tokens[k]}]

curr_and_next_tokens_possible(rule, tokens_by_class) ==
    [k \in 1..Len(rule.tokens) |-> {rule.tokens[k]}]
        \o [k \in 1..Len(rule.next_tokens) |-> {rule.next_tokens[k]}]
        \o [k \in 1..Len(rule.next_classes) |-> tokens_by_class[rule.next_classes[k]]]

tokens_possible(rule, tokens_by_class) ==
    prev_tokens_possible(rule, tokens_by_class)
        \o curr_and_next_tokens_possible(rule, tokens_by_class)

MaxOf(S) == CHOOSE m \in S : \A x \in S : x <= m

global_max_prev(rules) == MaxOf({count_of_prev(rules[i]) : i \in 1..Len(rules)})

global_max_curr_next(rules) ==
    MaxOf({count_of_curr_and_next(rules[i]) : i \in 1..Len(rules)})

matrix_width(rules) == global_max_prev(rules) + global_max_curr_next(rules)

matrix_row(self, i) ==
    LET rule == self.rules[i]
        all_tokens == DOMAIN self.tokens
        lead == [k \in 1..(global_max_prev(self.rules) - count_of_prev(rule)) |->
                    all_tokens]
        row == lead \o tokens_possible(rule, self.tokens_by_class)
    IN row \o [k \in 1..(matrix_width(self.rules) - Len(row)) |-> all_tokens]

matrix_of(self) == [i \in 1..Len(self.rules) |-> matrix_row(self, i)]

full_intersection_keeps_empty(matrix, width, i, j) ==
    [k \in 1..width |-> matrix[i][k] \cap matrix[j][k]]

\* <<>> stands for the None returned when some column is empty
full_intersection(matrix, width, i, j) ==
    IF \E k \in 1..width : matrix[i][k] \cap matrix[j][k] = {} THEN <<>>
    ELSE [k \in 1..width |-> matrix[i][k] \cap matrix[j][k]]

covered_by(intersection, row) ==
    \A i \in 1..Len(intersection) : intersection[i] \ row[i] = {}

covered_by_less_costly(rules, matrix, intersection, i_index, j_index) ==
    \E r_i \in 1..Len(rules) :
        /\ r_i \notin {i_index, j_index}
        /\ ~(rules[r_i].cost > rules[i_index].cost)
        /\ covered_by(intersection, matrix[r_i])

RECURSIVE groupby(_, _)
\* itertools.groupby over enumerate(rules): runs of consecutive equal keys
groupby(rules, i) ==
    IF i > Len(rules) THEN <<>>
    ELSE LET rest == groupby(rules, i + 1)
         IN IF rest # <<>>
               /\ count_of_tokens(rules[Head(rest)[1]]) = count_of_tokens(rules[i])
            THEN <<(<<i>> \o Head(rest))>> \o Tail(rest)
            ELSE <<(<<i>>)>> \o rest

RECURSIVE ambiguity_j(_, _, _, _, _, _)
\* "for j in range(i + 1, len(group))" with its break
ambiguity_j(rules, matrix, group, i, j, ambiguity) ==
    IF j > Len(group) THEN ambiguity
    ELSE LET intersection ==
                 full_intersection(matrix, Len(matrix[1]), group[i], group[j])
         IN IF intersection = <<>> THEN ambiguity
            ELSE ambiguity_j(rules, matrix, group, i, j + 1,
                             ambiguity
                                 \/ ~covered_by_less_costly(rules, matrix,
                                        intersection, group[i], group[j]))

RECURSIVE ambiguity_i(_, _, _, _, _)
\* "for i in range(len(group) - 1)"
ambiguity_i(rules, matrix, group, i, ambiguity) ==
    IF i > Len(group) - 1 THEN ambiguity
    ELSE ambiguity_i(rules, matrix, group, i + 1,
                     ambiguity_j(rules, matrix, group, i, i + 1, ambiguity))

RECURSIVE ambiguity_groups(_, _, _, _)
ambiguity_groups(rules, matrix, groups, ambiguity) ==
    IF groups = <<>> THEN ambiguity
    ELSE ambiguity_groups(rules, matrix, Tail(groups),
                          IF Len(Head(groups)) = 1 THEN ambiguity
                          ELSE ambiguity_i(rules, matrix, Head(groups), 1,
                                           ambiguity))

check_for_ambiguity(self) ==
    IF self.rules = <<>> THEN FALSE
    ELSE ambiguity_groups(self.rules, matrix_of(self), groupby(self.rules, 1),
                          FALSE)

(***************************************************************************)
(* On-match rules and their lookup (initialize._onmatch_rules_lookup):     *)
(* current token -> previous token -> indices of the candidate rules, in   *)
(* declared order.  Indices are 0-based as in the code.                    *)
(***************************************************************************)
onmatch_rule_of(prev_classes, next_classes, production) ==
    [prev_classes |-> prev_classes, next_classes |-> next_classes,
     production |-> production]

onmatch_candidates(tokens, onmatch_rules, prev_t, curr_t) ==
    LET applies(i) ==
            /\ onmatch_rules[i + 1].prev_classes[Len(onmatch_rules[i + 1].prev_classes)]
                   \in tokens[prev_t]
            /\ onmatch_rules[i + 1].next_classes[1] \in tokens[curr_t]
    IN SelectSeq([i \in 1..Len(onmatch_rules) |-> i - 1], applies)

onmatch_rules_lookup_of(tokens, onmatch_rules) ==
    LET prevs(curr_t) ==
            {prev_t \in DOMAIN tokens :
                onmatch_candidates(tokens, onmatch_rules, prev_t, curr_t) # <<>>}
    IN [curr_t \in {t \in DOMAIN tokens : prevs(t) # {}} |->
           [prev_t \in prevs(curr_t) |->
               onmatch_candidates(tokens, onmatch_rules, prev_t, curr_t)]]

(***************************************************************************)
(* GraphTransliterator.__init__.  Optional arguments that are absent are   *)
(* <<>>.  The result is the instance, with status "ok", or the settings    *)
(* with status "AmbiguousRules" when check_for_ambiguity raised (no        *)
(* instance exists then).                                                  *)
(***************************************************************************)
NoGraph == <<>>

GraphTransliterator(tokens, rules, whitespace, onmatch_rules, ignore_errors, check_ambiguity, onmatch_rules_lookup, tokens_by_class, graph) ==
    LET by_class == IF tokens_by_class # <<>> THEN tokens_by_class
                    ELSE tokens_by_class_of(tokens)
        base == [tokens |-> tokens, rules |-> rules, tokens_by_class |-> by_class]
        raised == check_ambiguity /\ check_for_ambiguity(base)
    IN [status |-> IF raised THEN "AmbiguousRules" ELSE "ok",
        tokens |-> tokens,
        rules |-> rules,
        tokens_by_class |-> by_class,
        check_ambiguity |-> check_ambiguity,
        whitespace |-> whitespace,
        onmatch_rules |-> onmatch_rules,
        onmatch_rules_lookup |->
            IF onmatch_rules = <<>> THEN <<>>
            ELSE IF onmatch_rules_lookup # <<>> THEN onmatch_rules_lookup
            ELSE onmatch_rules_lookup_of(tokens, onmatch_rules),
        ignore_errors |-> ignore_errors,
        graph |-> IF raised THEN NoGraph
                  ELSE IF graph # NoGraph THEN graph ELSE graph_from(rules),
        rule_keys |-> <<>>]

(***************************************************************************)
(* GraphTransliterator.tokenize.  The compiled pattern is the alternation  *)
(* of the token strings, longest first (initialize._tokenizer_pattern_from)*)
(***************************************************************************)
CharsOf(token) == <<token>>

tokenizer_matches(self, input, pos) ==
    {t \in DOMAIN self.tokens :
        /\ pos + Len(CharsOf(t)) <= Len(input)
        /\ SubSeq(input, pos + 1, pos + Len(CharsOf(t))) = CharsOf(t)}

tokenizer_match(self, input, pos) ==
    CHOOSE t \in tokenizer_matches(self, input, pos) :
        \A u \in tokenizer_matches(self, input, pos) :
            Len(CharsOf(u)) <= Len(CharsOf(t))

is_whitespace(self, token) == self.whitespace.token_class \in self.tokens[token]

RECURSIVE tokenize_scan_skips_two(_, _, _, _, _)
tokenize_scan_skips_two(self, input, pos, tokens, prev_whitespace) ==
    IF ~(pos < Len(input)) THEN [status |-> "ok", tokens |-> tokens]
    ELSE IF tokenizer_matches(self, input, pos) # {}
    THEN LET token == tokenizer_match(self, input, pos)
             end == pos + Len(CharsOf(token))
         IN IF is_whitespace(self, token)
            THEN IF prev_whitespace /\ self.whitespace.consolidate
                 THEN tokenize_scan_skips_two(self, input, end, tokens, prev_whitespace)
                 ELSE tokenize_scan_skips_two(self, input, end, Append(tokens, token), TRUE)
            ELSE tokenize_scan_skips_two(self, input, end, Append(tokens, token), FALSE)
    ELSE IF ~self.ignore_errors
    THEN [status |-> "UnrecognizableInputToken", tokens |-> <<>>]
    ELSE tokenize_scan_skips_two(self, input, pos + 2, tokens, prev_whitespace)

RECURSIVE tokenize_scan(_, _, _, _, _)
\* the "while match_at < len(input)" loop
tokenize_scan(self, input, pos, tokens, prev_whitespace) ==
    IF ~(pos < Len(input)) THEN [status |-> "ok", tokens |-> tokens]
    ELSE IF tokenizer_matches(self, input, pos) # {}
    THEN LET token == tokenizer_match(self, input, pos)
             end == pos + Len(CharsOf(token))
         IN IF is_whitespace(self, token)
            THEN IF prev_whitespace /\ self.whitespace.consolidate
                 THEN tokenize_scan(self, input, end, tokens, prev_whitespace)
                 ELSE tokenize_scan(self, input, end, Append(tokens, token), TRUE)
            ELSE tokenize_scan(self, input, end, Append(tokens, token), FALSE)
    ELSE IF ~self.ignore_errors
    THEN [status |-> "UnrecognizableInputToken", tokens |-> <<>>]
    ELSE tokenize_scan(self, input, pos + 1, tokens, prev_whitespace)

pop_whitespace_keeps_trailing(self, tokens) == tokens

RECURSIVE pop_whitespace(_, _)
\* "while len(tokens) > 1 and is_whitespace(tokens[-1]): tokens.pop()"
pop_whitespace(self, tokens) ==
    IF Len(tokens) > 1 /\ is_whitespace(self, tokens[Len(tokens)])
    THEN pop_whitespace(self, SubSeq(tokens, 1, Len(tokens) - 1))
    ELSE tokens

tokenize_omits_final_default(self, input) ==
    LET scanned == tokenize_scan(self, input, 0, <<self.whitespace.default>>, TRUE)
        trimmed == IF self.whitespace.consolidate
                   THEN pop_whitespace(self, scanned.tokens)
                   ELSE scanned.tokens
    IN IF scanned.status # "ok" THEN scanned
       ELSE [status |-> "ok", tokens |-> trimmed]

tokenize(self, input) ==
    LET scanned == tokenize_scan(self, input, 0, <<self.whitespace.default>>, TRUE)
        trimmed == IF self.whitespace.consolidate
                   THEN pop_whitespace(self, scanned.tokens)
                   ELSE scanned.tokens
    IN IF scanned.status # "ok" THEN scanned
       ELSE [status |-> "ok",
             tokens |-> Append(trimmed, self.whitespace.default)]

(***************************************************************************)
(* GraphTransliterator.transliterate.  The result carries the outcome, the *)
(* output string, the two records the call leaves on the instance          *)
(* (_input_tokens, _rule_keys) and, as history, the position at which each *)
(* recorded rule matched.                                                  *)
(***************************************************************************)
onmatch_production_across_whitespace(self, tokens, token_i) ==
    LET back == IF is_whitespace(self, TokAt(tokens, token_i - 1)) /\ token_i > 1
                THEN 2 ELSE 1
        prev_t == TokAt(tokens, token_i - back)
        curr_t == TokAt(tokens, token_i)
        curr_match_rules == Get(Get(self.onmatch_rules_lookup, curr_t), prev_t)
        passes(onmatch_i) ==
            LET onmatch == self.onmatch_rules[onmatch_i + 1]
            IN /\ match_tokens(self, token_i - back + 1 - Len(onmatch.prev_classes),
                               onmatch.prev_classes, tokens, TRUE, FALSE, TRUE)
               /\ match_tokens(self, token_i, onmatch.next_classes, tokens,
                               FALSE, TRUE, TRUE)
        passing == SelectSeq(curr_match_rules, passes)
    IN IF self.onmatch_rules = <<>> \/ passing = <<>> THEN <<>>
       ELSE self.onmatch_rules[Head(passing) + 1].production

onmatch_production_last_candidate(self, tokens, token_i) ==
    LET prev_t == TokAt(tokens, token_i - 1)
        curr_t == TokAt(tokens, token_i)
        curr_match_rules == Get(Get(self.onmatch_rules_lookup, curr_t), prev_t)
        passes(onmatch_i) ==
            LET onmatch == self.onmatch_rules[onmatch_i + 1]
            IN /\ match_tokens(self, token_i - Len(onmatch.prev_classes),
                               onmatch.prev_classes, tokens, TRUE, FALSE, TRUE)
               /\ match_tokens(self, token_i, onmatch.next_classes, tokens,
                               FALSE, TRUE, TRUE)
        passing == SelectSeq(curr_match_rules, passes)
    IN IF self.onmatch_rules = <<>> \/ passing = <<>> THEN <<>>
       ELSE self.onmatch_rules[passing[Len(passing)] + 1].production

onmatch_production(self, tokens, token_i) ==
    LET prev_t == TokAt(tokens, token_i - 1)
        curr_t == TokAt(tokens, token_i)
        curr_match_rules == Get(Get(self.onmatch_rules_lookup, curr_t), prev_t)
        passes(onmatch_i) ==
            LET onmatch == self.onmatch_rules[onmatch_i + 1]
            IN /\ match_tokens(self, token_i - Len(onmatch.prev_classes),
                               onmatch.prev_classes, tokens, TRUE, FALSE, TRUE)
               /\ match_tokens(self, token_i, onmatch.next_classes, tokens,
                               FALSE, TRUE, TRUE)
        passing == SelectSeq(curr_match_rules, passes)
    IN IF self.onmatch_rules = <<>> \/ passing = <<>> THEN <<>>
       ELSE self.onmatch_rules[Head(passing) + 1].production

RECURSIVE transliterate_scan_steps_one(_, _, _, _, _, _)
transliterate_scan_steps_one(self, tokens, token_i, output, rule_keys, starts) ==
    IF ~(token_i < Len(tokens) - 1)
    THEN [status |-> "ok", output |-> output, input_tokens |-> tokens,
          rule_keys |-> rule_keys, starts |-> starts]
    ELSE LET rule_key == match_at(self, token_i, tokens, FALSE)
         IN IF rule_key = None
            THEN IF self.ignore_errors
                 THEN transliterate_scan_steps_one(self, tokens, token_i + 1,
                                                   output, rule_keys, starts)
                 ELSE [status |-> "NoMatchingRule", output |-> <<>>,
                       input_tokens |-> tokens, rule_keys |-> rule_keys,
                       starts |-> starts]
            ELSE transliterate_scan_steps_one(self, tokens, token_i + 1,
                     output \o self.rules[rule_key + 1].production,
                     Append(rule_keys, rule_key), Append(starts, token_i))

RECURSIVE transliterate_scan_skips_two(_, _, _, _, _, _)
transliterate_scan_skips_two(self, tokens, token_i, output, rule_keys, starts) ==
    IF ~(token_i < Len(tokens) - 1)
    THEN [status |-> "ok", output |-> output, input_tokens |-> tokens,
          rule_keys |-> rule_keys, starts |-> starts]
    ELSE LET rule_key == match_at(self, token_i, tokens, FALSE)
         IN IF rule_key = None
            THEN IF self.ignore_errors
                 THEN transliterate_scan_skips_two(self, tokens, token_i + 2,
                                                   output, rule_keys, starts)
                 ELSE [status |-> "NoMatchingRule", output |-> <<>>,
                       input_tokens |-> tokens, rule_keys |-> rule_keys,
                       starts |-> starts]
            ELSE LET rule == self.rules[rule_key + 1]
                 IN transliterate_scan_skips_two(self, tokens,
                        token_i + Len(rule.tokens),
                        output \o onmatch_production(self, tokens, token_i)
                               \o rule.production,
                        Append(rule_keys, rule_key),
                        Append(starts, token_i))

RECURSIVE transliterate_scan(_, _, _, _, _, _)
\* the "while token_i < len(tokens) - 1" loop
transliterate_scan(self, tokens, token_i, output, rule_keys, starts) ==
    IF ~(token_i < Len(tokens) - 1)
    THEN [status |-> "ok", output |-> output, input_tokens |-> tokens,
          rule_keys |-> rule_keys, starts |-> starts]
    ELSE LET rule_key == match_at(self, token_i, tokens, FALSE)
         IN IF rule_key = None
            THEN IF self.ignore_errors
                 THEN transliterate_scan(self, tokens, token_i + 1, output,
                                         rule_keys, starts)
                 ELSE [status |-> "NoMatchingRule", output |-> <<>>,
                       input_tokens |-> tokens, rule_keys |-> rule_keys,
                       starts |-> starts]
            ELSE LET rule == self.rules[rule_key + 1]
                 IN transliterate_scan(self, tokens,
                        token_i + Len(rule.tokens),
                        output \o onmatch_production(self, tokens, token_i)
                               \o rule.production,
                        Append(rule_keys, rule_key),
                        Append(starts, token_i))

transliterate_never_ignores(self, input) ==
    LET strict == [self EXCEPT !.ignore_errors = FALSE]
        tokenized == tokenize(strict, input)
    IN IF tokenized.status # "ok"
       THEN [status |-> tokenized.status, output |-> <<>>,
             rule_keys |-> self.rule_keys, starts |-> <<>>]
       ELSE transliterate_scan(strict, tokenized.tokens, 1, <<>>, <<>>, <<>>)

transliterate(self, input) ==
    LET tokenized == tokenize(self, input)
    IN IF tokenized.status # "ok"
       THEN [status |-> tokenized.status, output |-> <<>>,
             rule_keys |-> self.rule_keys, starts |-> <<>>]
       ELSE transliterate_scan(self, tokenized.tokens, 1, <<>>, <<>>, <<>>)

(***************************************************************************)
(* GraphTransliterator.pruned_of.  The argument is a single string         *)
(* (kind "str") or a list of strings (kind "list"); "production not in     *)
(* productions" is Python's "in" on that argument.                         *)
(***************************************************************************)
IsSubstring(p, s) ==
    \E i \in 0..(Len(s) - Len(p)) : SubSeq(s, i + 1, i + Len(p)) = p

python_in(production, productions) ==
    IF productions.kind = "str" THEN IsSubstring(production, productions.value)
    ELSE \E k \in 1..Len(productions.value) : productions.value[k] = production

pruned_rules_of_keeps_listed(self, productions) ==
    LET keep(rule) == python_in(rule.production, productions)
    IN SelectSeq(self.rules, keep)

pruned_rules_of(self, productions) ==
    LET keep(rule) == ~python_in(rule.production, productions)
    IN SelectSeq(self.rules, keep)

pruned_of_always_checks(self, productions) ==
    GraphTransliterator(self.tokens, pruned_rules_of(self, productions),
                        self.whitespace, self.onmatch_rules, self.ignore_errors,
                        TRUE, <<>>, <<>>, NoGraph)

pruned_of(self, productions) ==
    GraphTransliterator(self.tokens, pruned_rules_of(self, productions),
                        self.whitespace, self.onmatch_rules, self.ignore_errors,
                        self.check_ambiguity, <<>>, <<>>, NoGraph)

(***************************************************************************)
(* dump and load (GraphTransliteratorSchema).  dump keeps the fields of    *)
(* Meta.fields, turning sets into lists; load turns the lists back into    *)
(* sets, rebuilds each rule from its fields and calls the constructor with *)
(* check_ambiguity = False.                                                *)
(***************************************************************************)
RECURSIVE ListOf(_)
ListOf(S) == IF S = {} THEN <<>>
             ELSE LET x == CHOOSE x \in S : TRUE IN <<x>> \o ListOf(S \ {x})

SetOf(list) == {list[k] : k \in 1..Len(list)}

dump(self) ==
    [tokens |-> [t \in DOMAIN self.tokens |-> ListOf(self.tokens[t])],
     rules |-> self.rules,
     whitespace |-> self.whitespace,
     onmatch_rules |-> self.onmatch_rules,
     onmatch_rules_lookup |-> self.onmatch_rules_lookup,
     tokens_by_class |->
         [c \in DOMAIN self.tokens_by_class |-> ListOf(self.tokens_by_class[c])],
     graph |-> self.graph]

loaded_rule(data) ==
    transliteration_rule_of(data.production, data.prev_classes, data.prev_tokens,
                            data.tokens, data.next_tokens, data.next_classes)

load(settings) ==
    GraphTransliterator(
        [t \in DOMAIN settings.tokens |-> SetOf(settings.tokens[t])],
        [k \in 1..Len(settings.rules) |-> loaded_rule(settings.rules[k])],
        settings.whitespace,
        settings.onmatch_rules,
        FALSE,
        FALSE,
        settings.onmatch_rules_lookup,
        [c \in DOMAIN settings.tokens_by_class |->
            SetOf(settings.tokens_by_class[c])],
        settings.graph)

(***************************************************************************)
(* The inputs of the model: a pool of rules in declared order, the rule    *)
(* lists built from it (sorted by cost, as SettingsSchema does), the       *)
(* sentinel-bounded token lists and the input strings.                     *)
(***************************************************************************)
RulePool ==
    << transliteration_rule_of(<<"A">>, <<>>, <<>>, <<"a">>, <<>>, <<>>),
       transliteration_rule_of(<<"A", "A">>, <<>>, <<>>, <<"a", "a">>, <<>>, <<>>),
       transliteration_rule_of(<<"A", "B">>, <<>>, <<>>, <<"a", "b">>, <<>>, <<>>),
       transliteration_rule_of(<<"E">>, <<>>, <<>>, <<"a">>, <<"a">>, <<>>),
       transliteration_rule_of(<<"F">>, <<"wb">>, <<>>, <<"a">>, <<"b">>, <<>>),
       transliteration_rule_of(<<"G">>, <<>>, <<"b">>, <<"a", "b">>, <<"b">>, <<>>),
       transliteration_rule_of(<<"H">>, <<>>, <<>>, <<"a", " ">>, <<>>, <<>>),
       transliteration_rule_of(<<"C">>, <<>>, <<>>, <<"a">>, <<>>, <<"class1">>),
       transliteration_rule_of(<<"D">>, <<"any">>, <<>>, <<"a">>, <<"b">>, <<>>),
       transliteration_rule_of(<<"_">>, <<>>, <<>>, <<" ">>, <<>>, <<>>) >>

RECURSIVE SelectPool(_, _, _)
\* the rules of pool whose index is in S, in declared order
SelectPool(pool, S, i) ==
    IF i > Len(pool) THEN <<>>
    ELSE (IF i \in S THEN <<pool[i]>> ELSE <<>>) \o SelectPool(pool, S, i + 1)

RuleListsOf(pool, max) ==
    {sort_rules_by_cost(SelectPool(pool, S, 1)) :
        S \in {S \in SUBSET (1..Len(pool)) : Cardinality(S) <= max}}

RECURSIVE SeqsUpTo(_, _)
SeqsUpTo(S, n) ==
    IF n = 0 THEN {<<>>}
    ELSE LET shorter == SeqsUpTo(S, n - 1)
         IN shorter \cup {Append(q, x) : q \in shorter, x \in S}

TokenLists ==
    {<<WhitespaceDefault>> \o mid \o <<WhitespaceDefault>> :
        mid \in SeqsUpTo(TokenSet, MaxInterior)}

InputChars == TokenSet \cup {"!"}

Inputs == SeqsUpTo(InputChars, MaxInputLen)

Whitespace(consolidate) ==
    [default |-> WhitespaceDefault, token_class |-> WhitespaceTokenClass,
     consolidate |-> consolidate]

Settings(rules, onmatch_rules, consolidate, ignore_errors, check_ambiguity) ==
    [status |-> "settings",
     tokens |-> SettingsTokens,
     rules |-> rules,
     whitespace |-> Whitespace(consolidate),
     onmatch_rules |-> onmatch_rules,
     ignore_errors |-> ignore_errors,
     check_ambiguity |-> check_ambiguity]

NoInstance == [from |-> "none"]

NoCall == [op |-> "none"]

\* the rules, on-match rules and pruned_of arguments of SpecTrans
TransPool ==
    << transliteration_rule_of(<<"A">>, <<>>, <<>>, <<"a">>, <<>>, <<>>),
       transliteration_rule_of(<<"B">>, <<>>, <<>>, <<"b">>, <<>>, <<>>),
       transliteration_rule_of(<<"A", "B">>, <<>>, <<>>, <<"a", "b">>, <<>>, <<>>),
       transliteration_rule_of(<<"H">>, <<>>, <<>>, <<"a", " ">>, <<>>, <<>>),
       transliteration_rule_of(<<"C">>, <<>>, <<>>, <<"a">>, <<>>, <<"class1">>),
       transliteration_rule_of(<<"D">>, <<"any">>, <<>>, <<"a">>, <<"b">>, <<>>) >>

OnMatchLists ==
    {<<>>, <<onmatch_rule_of(<<"class1">>, <<"class2">>, <<",">>)>>}

\* on-match rule lists of SpecTrans: two rules that apply at the same
\* boundary in both declared orders, and a rule whose previous window does
\* not fit before position 1
OnMatchOrders ==
    LET comma == onmatch_rule_of(<<"class1">>, <<"class2">>, <<",">>)
        bang == onmatch_rule_of(<<"any", "class1">>, <<"class2">>, <<"!">>)
        semi == onmatch_rule_of(<<"any", "any">>, <<"class1">>, <<";">>)
    IN {<<>>, <<comma>>, <<bang, comma>>, <<comma, bang>>, <<semi, comma>>}

productions_of(self) == [k \in 1..Len(self.rules) |-> self.rules[k].production]

PruneArgs(self) ==
    {[kind |-> "str", value |-> p] : p \in {<<"A", "B">>, <<"D">>, <<"Z">>}}
    \cup {[kind |-> "list", value |-> l] :
            l \in {productions_of(self), <<(<<"A", "B">>)>>, <<(<<"Z">>)>>}}

(***************************************************************************)
(* Actions.                                                                *)
(***************************************************************************)
\* GraphTransliterator(...) on validated settings
Construct ==
    /\ gt.status = "settings"
    /\ gt' = GraphTransliterator(gt.tokens, gt.rules, gt.whitespace,
                                 gt.onmatch_rules, gt.ignore_errors,
                                 gt.check_ambiguity, <<>>, <<>>, NoGraph)
    /\ UNCHANGED <<derived, call>>

\* gt.ignore_errors = value: the setter of the property, called on the
\* constructed instance before a call is made on it or an instance is
\* derived from it
SetIgnoreErrors ==
    /\ gt.status = "ok"
    /\ call.op = "none"
    /\ derived.from = "none"
    /\ \E value \in BOOLEAN : gt' = [gt EXCEPT !.ignore_errors = value]
    /\ UNCHANGED <<derived, call>>

\* gt.match_at(token_i, tokens, match_all)
MatchAt ==
    /\ gt.status = "ok"
    /\ call.op = "none"
    /\ \E tokens \in TokenLists, match_all \in BOOLEAN :
          \E token_i \in 0..(Len(tokens) - 1) :
              call' = [op |-> "match_at", token_i |-> token_i, tokens |-> tokens,
                       match_all |-> match_all,
                       result |-> match_at(gt, token_i, tokens, match_all)]
    /\ UNCHANGED <<gt, derived>>

Init ==
    /\ gt \in {Settings(rules, <<>>, TRUE, FALSE, check_ambiguity) :
                  rules \in RuleListsOf(RulePool, MaxRules),
                  check_ambiguity \in BOOLEAN}
    /\ derived = NoInstance
    /\ call = NoCall

Next == Construct \/ MatchAt

Spec == Init /\ [][Next]_vars

(***************************************************************************)
(* What it means for a rule to match at a position, stated directly on the *)
(* token list: the rule's tokens lie at token_i, its previous tokens and   *)
(* classes lie right before them and its next tokens and classes right     *)
(* after them, every window inside the list.                               *)
(***************************************************************************)
WindowHolds(self, tokens, start, want, by_class) ==
    /\ start >= 0
    /\ start + Len(want) <= Len(tokens)
    /\ \A k \in 1..Len(want) :
          IF by_class THEN want[k] \in self.tokens[tokens[start + k]]
          ELSE tokens[start + k] = want[k]

RuleMatchesAt(self, rule, tokens, token_i) ==
    /\ WindowHolds(self, tokens, token_i, rule.tokens, FALSE)
    /\ WindowHolds(self, tokens, token_i - Len(rule.prev_tokens),
                   rule.prev_tokens, FALSE)
    /\ WindowHolds(self, tokens,
                   token_i - Len(rule.prev_tokens) - Len(rule.prev_classes),
                   rule.prev_classes, TRUE)
    /\ WindowHolds(self, tokens, token_i + Len(rule.tokens),
                   rule.next_tokens, FALSE)
    /\ WindowHolds(self, tokens,
                   token_i + Len(rule.tokens) + Len(rule.next_tokens),
                   rule.next_classes, TRUE)

MatchingRules(self, tokens, token_i) ==
    {rule_key \in 0..(Len(self.rules) - 1) :
        RuleMatchesAt(self, self.rules[rule_key + 1], tokens, token_i)}

CheapestOf(self, keys) ==
    {k \in keys : \A m \in keys : self.rules[k + 1].cost <= self.rules[m + 1].cost}

\* C1: in single-match mode match_at returns a rule of minimum cost among
\* all the rules that match at the position (tokens and constraints), and
\* returns None exactly when no rule matches there.
C1_MatchAtReturnsCheapest ==
    (call.op = "match_at" /\ ~call.match_all) =>
        LET matching == MatchingRules(gt, call.tokens, call.token_i)
        IN IF matching = {} THEN call.result = None
           ELSE call.result \in CheapestOf(gt, matching)

\* C2: with match_all, match_at returns every rule that matches at the
\* position, each once, in ascending order of rule key (ascending cost).
C2_MatchAllReturnsAllAscending ==
    (call.op = "match_at" /\ call.match_all) =>
        /\ SetOf(call.result) = MatchingRules(gt, call.tokens, call.token_i)
        /\ \A i, j \in 1..Len(call.result) : i < j => call.result[i] < call.result[j]

\* C3: when construction with check_ambiguity succeeded, the cheapest rule
\* matching at any position of any token list is unique.
C3_CheckedRulesHaveUniqueCheapest ==
    (gt.status = "ok" /\ gt.check_ambiguity /\ call.op = "match_at") =>
        Cardinality(CheapestOf(gt, MatchingRules(gt, call.tokens, call.token_i)))
            <= 1

SameCountPairs(rules) ==
    {pair \in (1..Len(rules)) \X (1..Len(rules)) :
        /\ pair[1] < pair[2]
        /\ count_of_tokens(rules[pair[1]]) = count_of_tokens(rules[pair[2]])}

ColumnsDisjoint(self, i, j) ==
    \E k \in 1..matrix_width(self.rules) :
        matrix_row(self, i)[k] \cap matrix_row(self, j)[k] = {}

NoSameCountOverlap(self) ==
    \A pair \in SameCountPairs(self.rules) : ColumnsDisjoint(self, pair[1], pair[2])

WithClasses(self) ==
    [self EXCEPT !.status = "settings"] @@
        [tokens_by_class |-> tokens_by_class_of(self.tokens)]

\* C4: a cost-sorted rule list in which every two rules of equal constraint
\* count have an empty column intersection is never reported ambiguous:
\* construction with check_ambiguity does not raise AmbiguousRules.
C4_NoFalseAmbiguity ==
    (gt.status # "settings" /\ gt.check_ambiguity
        /\ NoSameCountOverlap(WithClasses(gt))) => gt.status = "ok"

C4_Witness ==
    /\ gt.status = "ok"
    /\ gt.check_ambiguity
    /\ SameCountPairs(gt.rules) # {}
    /\ NoSameCountOverlap(gt)

(***************************************************************************)
(* SpecTrans: transliterate on a constructed instance.  SpecDerive:        *)
(* pruned_of and the dump/load round trip, and transliterate on the        *)
(* instance they return.  A call is made on the instance itself before any *)
(* instance is derived from it, and on the derived instance afterwards.    *)
(***************************************************************************)
Target == IF derived.from = "none" THEN gt ELSE derived.inst

\* the instance after transliterate: tokenize raises before either
\* assignment; otherwise self._input_tokens = tokens and self._rule_keys
\* holds the keys appended up to the return or the raise.  The attribute
\* _input_tokens does not exist before the first assignment.
records_after(self, result) ==
    IF result.status = "UnrecognizableInputToken" THEN self
    ELSE Put([self EXCEPT !.rule_keys = result.rule_keys],
             "input_tokens", result.input_tokens)

\* the property last_input_tokens: AttributeError while _input_tokens has
\* never been assigned
last_input_tokens(self) ==
    IF HasKey(self, "input_tokens")
    THEN [status |-> "ok", tokens |-> self.input_tokens]
    ELSE [status |-> "AttributeError", tokens |-> <<>>]

\* self.transliterate(input)
Transliterate ==
    /\ gt.status = "ok"
    /\ call.op = "none"
    /\ Target.status = "ok"
    /\ \E input \in Inputs :
          LET result == transliterate(Target, input)
              after == records_after(Target, result)
          IN /\ call' = [op |-> "transliterate", input |-> input,
                         result |-> result]
             /\ IF derived.from = "none"
                THEN gt' = after /\ UNCHANGED derived
                ELSE derived' = [derived EXCEPT !.inst = after] /\ UNCHANGED gt

\* gt.pruned_of(productions)
PrunedOf ==
    /\ gt.status = "ok"
    /\ call.op = "none"
    /\ derived.from = "none"
    /\ \E productions \in PruneArgs(gt) :
          derived' = [from |-> "pruned_of", productions |-> productions,
                      inst |-> pruned_of(gt, productions)]
    /\ UNCHANGED <<gt, call>>

\* GraphTransliterator.load(gt.dump())
DumpLoad ==
    /\ gt.status = "ok"
    /\ call.op = "none"
    /\ derived.from = "none"
    /\ derived' = [from |-> "load", inst |-> load(dump(gt))]
    /\ UNCHANGED <<gt, call>>

InitTrans ==
    /\ gt \in {Settings(rules, onmatch_rules, consolidate, ignore_errors,
                        check_ambiguity) :
                  rules \in RuleListsOf(TransPool, MaxRules),
                  onmatch_rules \in OnMatchOrders,
                  consolidate \in BOOLEAN,
                  ignore_errors \in BOOLEAN,
                  check_ambiguity \in BOOLEAN}
    /\ derived = NoInstance
    /\ call = NoCall

NextTrans == Construct \/ SetIgnoreErrors \/ Transliterate

SpecTrans == InitTrans /\ [][NextTrans]_vars

InitDerive ==
    /\ gt \in {Settings(rules,
                        <<onmatch_rule_of(<<"class1">>, <<"class2">>, <<",">>)>>,
                        consolidate, ignore_errors, check_ambiguity) :
                  rules \in RuleListsOf(TransPool, MaxRules),
                  consolidate \in BOOLEAN,
                  ignore_errors \in BOOLEAN,
                  check_ambiguity \in BOOLEAN}
    /\ derived = NoInstance
    /\ call = NoCall

NextDerive ==
    Construct \/ SetIgnoreErrors \/ PrunedOf \/ DumpLoad \/ Transliterate

SpecDerive == InitDerive /\ [][NextDerive]_vars

(***************************************************************************)
(* The spans of a transliterate call: the k-th recorded rule consumed the  *)
(* positions SpanStart(k) .. SpanEnd(k) - 1 of the token list.             *)
(***************************************************************************)
SpanStart(result, k) == result.starts[k]

SpanEnd(self, result, k) ==
    result.starts[k] + Len(self.rules[result.rule_keys[k] + 1].tokens)

SpansContiguous(self, result) ==
    /\ result.starts # <<>> => SpanStart(result, 1) = 1
    /\ \A k \in 1..(Len(result.starts) - 1) :
          SpanStart(result, k + 1) = SpanEnd(self, result, k)

LastSpanEnd(self, result) ==
    IF result.starts = <<>> THEN 1
    ELSE SpanEnd(self, result, Len(result.starts))

ReturnedStrict ==
    call.op = "transliterate" /\ ~Target.ignore_errors /\ call.result.status = "ok"

\* C5 as stated: when ignore_errors is false and transliterate returns, the
\* spans of the matched rules tile the non-sentinel positions 1..len-2
\* exactly (no gap, no overlap, nothing beyond).
C5_SpansTileExactly ==
    ReturnedStrict =>
        /\ SpansContiguous(Target, call.result)
        /\ LastSpanEnd(Target, call.result) = Len(call.result.input_tokens) - 1

\* C5 amended: when ignore_errors is false and transliterate returns, the
\* spans start at position 1, each starts where the previous one ended, and
\* together they cover every non-sentinel position; the last span may reach
\* past position len-2 (a rule whose tokens end in whitespace consumes the
\* final sentinel).
C5_SpansCoverContiguously ==
    ReturnedStrict =>
        /\ SpansContiguous(Target, call.result)
        /\ LastSpanEnd(Target, call.result) >= Len(call.result.input_tokens) - 1

C5_Witness ==
    /\ ReturnedStrict
    /\ Len(call.result.starts) >= 2
    /\ LastSpanEnd(Target, call.result) > Len(call.result.input_tokens) - 1

\* C6: load(dump(x)).transliterate(s) has the same outcome (output string or
\* failure) as x.transliterate(s) for every instance x and input s, and
\* loading does not run the ambiguity check.
C6_RoundTripPreservesBehaviour ==
    derived.from = "load" =>
        /\ derived.inst.status = "ok"
        /\ ~derived.inst.check_ambiguity
        /\ call.op = "transliterate" =>
              /\ call.result.status = transliterate(gt, call.input).status
              /\ call.result.output = transliterate(gt, call.input).output

GivenProductions(productions) ==
    IF productions.kind = "str" THEN {productions.value}
    ELSE SetOf(productions.value)

RulesWithout(self, given) ==
    LET keep(rule) == rule.production \notin given
    IN SelectSeq(self.rules, keep)

\* C7: pruned_of returns an instance whose rules are exactly the original
\* rules whose production is not one of the given productions, in the
\* original order; a single string removes exactly the rules whose
\* production equals it.
C7_PrunedRulesAreTheOthers ==
    (derived.from = "pruned_of" /\ derived.inst.status = "ok") =>
        derived.inst.rules = RulesWithout(gt, GivenProductions(derived.productions))

PrunesAll ==
    /\ derived.from = "pruned_of"
    /\ derived.productions.kind = "list"
    /\ SetOf(productions_of(gt)) \subseteq SetOf(derived.productions.value)

HasUnrecognizable(self, input) ==
    \E i \in 1..Len(input) : input[i] \notin DOMAIN self.tokens

OnlySentinels(self, input) ==
    \/ input = <<>>
    \/ /\ self.whitespace.consolidate
       /\ \A i \in 1..Len(input) :
             self.whitespace.token_class \in self.tokens[input[i]]

\* C8 as stated: pruning all productions yields an instance with zero rules
\* whose transliterate (ignore_errors false) fails with NoMatchingRule on
\* any input.
C8_PrunedOfAllAlwaysFails ==
    PrunesAll =>
        /\ derived.inst.rules = <<>>
        /\ (call.op = "transliterate" /\ ~derived.inst.ignore_errors) =>
              call.result.status = "NoMatchingRule"

\* C8 amended: pruning all productions yields an instance with zero rules;
\* with ignore_errors false its transliterate fails with NoMatchingRule on
\* every input of declared tokens that leaves a token between the sentinels,
\* returns the empty string when the token list is the two sentinels alone
\* (empty input, or all-whitespace input under consolidate), and fails with
\* UnrecognizableInputToken when the input has an undeclared character.
C8_PrunedOfAllFailsOnTokens ==
    PrunesAll =>
        /\ derived.inst.rules = <<>>
        /\ (call.op = "transliterate" /\ ~derived.inst.ignore_errors) =>
              IF HasUnrecognizable(derived.inst, call.input)
              THEN call.result.status = "UnrecognizableInputToken"
              ELSE IF OnlySentinels(derived.inst, call.input)
              THEN call.result.status = "ok" /\ call.result.output = <<>>
              ELSE call.result.status = "NoMatchingRule"

C8_Witness ==
    /\ PrunesAll
    /\ Len(gt.rules) >= 2
    /\ call.op = "transliterate"
    /\ ~derived.inst.ignore_errors
    /\ call.result.status = "NoMatchingRule"

\* C9: pruned_of with a production that no rule has returns an instance
\* with the same number of rules, the same rule keys and the same
\* transliterate and match_at results as the original.
C9_PruningAbsentProductionChangesNothing ==
    (derived.from = "pruned_of"
        /\ \A k \in 1..Len(gt.rules) :
              gt.rules[k].production \notin GivenProductions(derived.productions))
    => /\ derived.inst.status = "ok"
       /\ Len(derived.inst.rules) = Len(gt.rules)
       /\ derived.inst.rules = gt.rules
       /\ derived.inst.graph = gt.graph
       /\ call.op = "transliterate" =>
             /\ call.result.status = transliterate(gt, call.input).status
             /\ call.result.output = transliterate(gt, call.input).output

\* C10 as stated: pruned_of never fails with AmbiguousRules, whatever rules
\* are removed and whatever the original's check_ambiguity setting.
C10_PrunedOfNeverAmbiguous ==
    derived.from = "pruned_of" => derived.inst.status # "AmbiguousRules"

\* C10 amended: pruned_of builds the pruned instance with the original
\* instance's check_ambiguity setting.  When that setting is false it never
\* fails with AmbiguousRules, whatever rules are removed; when it is true
\* the ambiguity check runs again on the pruned rules, and a failure with
\* AmbiguousRules means two pruned rules of equal constraint count overlap
\* in every column.
C10_PrunedOfKeepsCheckSetting ==
    derived.from = "pruned_of" =>
        /\ derived.inst.check_ambiguity = gt.check_ambiguity
        /\ ~gt.check_ambiguity => derived.inst.status = "ok"
        /\ derived.inst.status = "AmbiguousRules" =>
              ~NoSameCountOverlap(derived.inst)

C10_Witness ==
    /\ derived.from = "pruned_of"
    /\ ~gt.check_ambiguity
    /\ derived.inst.status = "ok"
    /\ Len(derived.inst.rules) < Len(gt.rules)
    /\ ~check_for_ambiguity(gt)
    /\ check_for_ambiguity(derived.inst)

(***************************************************************************)
(* SpecScenario: the settings of the specification's first scenario        *)
(* (a: class1, b: class2, ' ': wb; rules a -> A, b -> B, ' ' -> ' ') and   *)
(* transliterate on texts one character longer than Inputs.                *)
(***************************************************************************)
ScenarioTokens ==
    ("a" :> {"class1"}) @@ ("b" :> {"class2"}) @@ (" " :> {"wb"})

ScenarioPool ==
    << transliteration_rule_of(<<"A">>, <<>>, <<>>, <<"a">>, <<>>, <<>>),
       transliteration_rule_of(<<"B">>, <<>>, <<>>, <<"b">>, <<>>, <<>>),
       transliteration_rule_of(<<" ">>, <<>>, <<>>, <<" ">>, <<>>, <<>>) >>

ScenarioInputs == SeqsUpTo(DOMAIN ScenarioTokens, MaxInputLen + 1)

InitScenario ==
    /\ gt \in {[Settings(rules, onmatch_rules, consolidate, ignore_errors, FALSE)
                   EXCEPT !.tokens = ScenarioTokens] :
                  rules \in RuleListsOf(ScenarioPool, MaxRules),
                  onmatch_rules \in OnMatchLists,
                  consolidate \in BOOLEAN,
                  ignore_errors \in BOOLEAN}
    /\ derived = NoInstance
    /\ call = NoCall

\* gt.transliterate(input) on a scenario text
TransliterateScenario ==
    /\ gt.status = "ok"
    /\ call.op = "none"
    /\ \E input \in ScenarioInputs :
          LET result == transliterate(gt, input)
          IN /\ call' = [op |-> "transliterate", input |-> input,
                         result |-> result]
             /\ gt' = records_after(gt, result)
    /\ UNCHANGED derived

NextScenario == Construct \/ SetIgnoreErrors \/ TransliterateScenario

SpecScenario == InitScenario /\ [][NextScenario]_vars

IsScenario1 ==
    /\ gt.status = "ok"
    /\ gt.tokens = ScenarioTokens
    /\ SetOf(gt.rules) = SetOf(ScenarioPool)
    /\ gt.onmatch_rules = <<onmatch_rule_of(<<"class1">>, <<"class2">>, <<",">>)>>
    /\ ~gt.whitespace.consolidate
    /\ call.op = "transliterate"

\* C11 as stated: in scenario 1 (on-match rule <class1> + <class2> -> ",",
\* consolidate false) transliterate("a b") returns "A ,B".
C11_Scenario1ReturnsCommaAfterSpace ==
    (IsScenario1 /\ call.input = <<"a", " ", "b">>) =>
        (call.result.status = "ok" /\ call.result.output = <<"A", " ", ",", "B">>)

\* C11 amended: in scenario 1 transliterate("a b") returns "A B": the token
\* before b is the whitespace token, which is not of class1, so the on-match
\* rule does not apply; it applies when a and b are adjacent, and
\* transliterate("ab") returns "A,B".
C11_Scenario1ReturnsNoComma ==
    IsScenario1 =>
        /\ call.input = <<"a", " ", "b">> =>
              (call.result.status = "ok" /\ call.result.output = <<"A", " ", "B">>)
        /\ call.input = <<"a", "b">> =>
              (call.result.status = "ok" /\ call.result.output = <<"A", ",", "B">>)

C11_Witness ==
    /\ IsScenario1
    /\ call.input = <<"a", " ", "b">>
    /\ call.result.rule_keys # <<>>

(***************************************************************************)
(* The on-match production expected at a match position, stated on the     *)
(* token list: the production of the first on-match rule, in declared      *)
(* order, whose previous classes lie right before the position and whose   *)
(* next classes lie at it.                                                 *)
(***************************************************************************)
OnMatchHolds(self, onmatch, tokens, p) ==
    /\ WindowHolds(self, tokens, p - Len(onmatch.prev_classes),
                   onmatch.prev_classes, TRUE)
    /\ WindowHolds(self, tokens, p, onmatch.next_classes, TRUE)

ExpectedOnMatch(self, tokens, p) ==
    LET holding == {i \in 1..Len(self.onmatch_rules) :
                       OnMatchHolds(self, self.onmatch_rules[i], tokens, p)}
    IN IF holding = {} THEN <<>>
       ELSE self.onmatch_rules[CHOOSE i \in holding : \A j \in holding : i <= j].production

RECURSIVE ExpectedOutput(_, _, _)
ExpectedOutput(self, result, k) ==
    IF k > Len(result.starts) THEN <<>>
    ELSE ExpectedOnMatch(self, result.input_tokens, result.starts[k])
            \o self.rules[result.rule_keys[k] + 1].production
            \o ExpectedOutput(self, result, k + 1)

\* C12: after each rule match at position p the output receives the
\* production of the first on-match rule, in declared order, whose
\* prev_classes window ending at p-1 and next_classes window starting at p
\* both match (at most one), then the matched rule's production, and the
\* position advances by len(rule.tokens).
C12_OnMatchFirstCandidateBeforeProduction ==
    (call.op = "transliterate" /\ call.result.status = "ok") =>
        /\ call.result.output = ExpectedOutput(Target, call.result, 1)
        /\ \A k \in 1..(Len(call.result.starts) - 1) :
              /\ call.result.starts[k + 1] >= SpanEnd(Target, call.result, k)
              /\ ~Target.ignore_errors =>
                    call.result.starts[k + 1] = SpanEnd(Target, call.result, k)

C12_Witness ==
    /\ call.op = "transliterate"
    /\ call.result.status = "ok"
    /\ Len(Target.onmatch_rules) = 2
    /\ \E k \in 2..Len(call.result.starts) :
          \A i \in 1..2 :
              OnMatchHolds(Target, Target.onmatch_rules[i],
                           call.result.input_tokens, call.result.starts[k])

(***************************************************************************)
(* SpecTokenize: tokenize on texts over the declared tokens, a second      *)
(* whitespace token "_" and the undeclared character "!".                  *)
(***************************************************************************)
TokenizeTokens == SettingsTokens @@ ("_" :> {"wb"})

TokenizeInputs == SeqsUpTo(DOMAIN TokenizeTokens \cup {"!"}, MaxInputLen + 2)

InitTokenize ==
    /\ gt \in {[Settings(<<TransPool[1]>>, <<>>, consolidate, ignore_errors, FALSE)
                   EXCEPT !.tokens = TokenizeTokens] :
                  consolidate \in BOOLEAN, ignore_errors \in BOOLEAN}
    /\ derived = NoInstance
    /\ call = NoCall

\* gt.tokenize(input)
Tokenize ==
    /\ gt.status = "ok"
    /\ call.op = "none"
    /\ \E input \in TokenizeInputs :
          call' = [op |-> "tokenize", input |-> input,
                   result |-> tokenize(gt, input)]
    /\ UNCHANGED <<gt, derived>>

NextTokenize == Construct \/ SetIgnoreErrors \/ Tokenize

SpecTokenize == InitTokenize /\ [][NextTokenize]_vars

IsWhitespaceChar(self, ch) ==
    ch \in DOMAIN self.tokens /\ self.whitespace.token_class \in self.tokens[ch]

RECURSIVE KeepWhere(_, _, _)
\* the elements of seq at the positions from i on that satisfy keep
KeepWhere(seq, keep(_), i) ==
    IF i > Len(seq) THEN <<>>
    ELSE (IF keep(i) THEN <<seq[i]>> ELSE <<>>) \o KeepWhere(seq, keep, i + 1)

\* each run of whitespace collapsed to its first character
CollapseRuns(self, input) ==
    LET keep(i) == \/ ~IsWhitespaceChar(self, input[i])
                   \/ i = 1
                   \/ ~IsWhitespaceChar(self, input[i - 1])
    IN KeepWhere(input, keep, 1)

\* leading and trailing whitespace removed
Strip(self, input) ==
    LET inner(i) == /\ \E j \in 1..i : ~IsWhitespaceChar(self, input[j])
                    /\ \E j \in i..Len(input) : ~IsWhitespaceChar(self, input[j])
    IN KeepWhere(input, inner, 1)

OneSentinelEachEnd(self, tokens) ==
    /\ Len(tokens) >= 2
    /\ tokens[1] = self.whitespace.default
    /\ tokens[Len(tokens)] = self.whitespace.default
    /\ Len(tokens) > 2 =>
          /\ ~is_whitespace(self, tokens[2])
          /\ ~is_whitespace(self, tokens[Len(tokens) - 1])

\* C13: with consolidate true, tokenize gives the same result for an input
\* and for the input with each run of whitespace collapsed to one and the
\* leading and trailing whitespace removed, and a returned token list has
\* exactly one whitespace sentinel at each end.
C13_TokenizeIgnoresWhitespacePadding ==
    (call.op = "tokenize" /\ gt.whitespace.consolidate) =>
        /\ call.result = tokenize(gt, CollapseRuns(gt, call.input))
        /\ call.result = tokenize(gt, Strip(gt, call.input))
        /\ call.result = tokenize(gt, Strip(gt, CollapseRuns(gt, call.input)))
        /\ call.result.status = "ok" => OneSentinelEachEnd(gt, call.result.tokens)

C13_Witness ==
    /\ call.op = "tokenize"
    /\ gt.whitespace.consolidate
    /\ call.result.status = "ok"
    /\ Len(call.result.tokens) > 3
    /\ Len(Strip(gt, CollapseRuns(gt, call.input))) + 2 <= Len(call.input)

Recognizable(self, input) ==
    LET declared(i) == input[i] \in DOMAIN self.tokens
    IN KeepWhere(input, declared, 1)

\* C14: tokenize on an input with a character at which no declared token
\* matches fails with UnrecognizableInputToken and returns no tokens when
\* ignore_errors is false; when ignore_errors is true it skips that one
\* character, resumes at the next one and returns the tokens of the
\* remaining recognizable text.
C14_TokenizeUnrecognizable ==
    (call.op = "tokenize" /\ HasUnrecognizable(gt, call.input)) =>
        IF gt.ignore_errors
        THEN /\ call.result.status = "ok"
             /\ call.result = tokenize(gt, Recognizable(gt, call.input))
        ELSE /\ call.result.status = "UnrecognizableInputToken"
             /\ call.result.tokens = <<>>

C14_Witness ==
    /\ call.op = "tokenize"
    /\ gt.ignore_errors
    /\ HasUnrecognizable(gt, call.input)
    /\ Len(call.result.tokens) > 3

\* the non-sentinel positions that no recorded match consumed
Uncovered(self, result) ==
    {p \in 1..(Len(result.input_tokens) - 2) :
        ~\E k \in 1..Len(result.starts) :
            SpanStart(result, k) <= p /\ p < SpanEnd(self, result, k)}

\* C15: when match_at finds no rule at a non-sentinel position, transliterate
\* fails with NoMatchingRule and returns no output if ignore_errors is
\* false; if ignore_errors is true it advances by exactly one token,
\* appends nothing to the output or to the matched-rule record for that
\* position, and continues.
C15_NoMatchFailsOrSkipsOne ==
    (call.op = "transliterate" /\ call.result.status # "UnrecognizableInputToken") =>
        LET result == call.result
            tokens == result.input_tokens
            none_at(p) == match_at(Target, p, tokens, FALSE) = None
        IN /\ Len(result.rule_keys) = Len(result.starts)
           /\ \A k \in 1..Len(result.starts) :
                 match_at(Target, result.starts[k], tokens, FALSE) = result.rule_keys[k]
           /\ IF Target.ignore_errors
              THEN /\ result.status = "ok"
                   /\ \A p \in Uncovered(Target, result) : none_at(p)
                   /\ result.output = ExpectedOutput(Target, result, 1)
              ELSE /\ result.status = "ok" => Uncovered(Target, result) = {}
                   /\ result.status # "ok" =>
                         /\ result.status = "NoMatchingRule"
                         /\ result.output = <<>>
                         /\ SpansContiguous(Target, result)
                         /\ LastSpanEnd(Target, result) < Len(tokens) - 1
                         /\ none_at(LastSpanEnd(Target, result))

C15_Witness ==
    /\ call.op = "transliterate"
    /\ Target.ignore_errors
    /\ call.result.status = "ok"
    /\ \E p \in Uncovered(Target, call.result) :
          \E k \in 1..Len(call.result.starts) : p < call.result.starts[k]

(***************************************************************************)
(* SpecCalls: a sequence of transliterate calls on one instance.  The      *)
(* records a call leaves on the instance (_input_tokens, _rule_keys) are   *)
(* the ones the next call finds.                                           *)
(***************************************************************************)
CallsPool == <<TransPool[1], TransPool[3], TransPool[4]>>

InitCalls ==
    /\ gt \in {Settings(rules, <<>>, TRUE, ignore_errors, FALSE) :
                  rules \in RuleListsOf(CallsPool, MaxRules),
                  ignore_errors \in BOOLEAN}
    /\ derived = NoInstance
    /\ call = NoCall

\* a further gt.transliterate(input) after an earlier call has ended
TransliterateAgain ==
    /\ gt.status = "ok"
    /\ call.op = "transliterate"
    /\ \E input \in Inputs :
          LET result == transliterate(gt, input)
          IN /\ call' = [op |-> "transliterate", input |-> input,
                         result |-> result]
             /\ gt' = records_after(gt, result)
    /\ UNCHANGED derived

\* gt.ignore_errors = value between two calls
SetIgnoreErrorsAgain ==
    /\ gt.status = "ok"
    /\ call.op = "transliterate"
    /\ \E value \in BOOLEAN : gt' = [gt EXCEPT !.ignore_errors = value]
    /\ UNCHANGED <<derived, call>>

NextCalls ==
    \/ Construct \/ SetIgnoreErrors \/ Transliterate
    \/ SetIgnoreErrorsAgain \/ TransliterateAgain

SpecCalls == InitCalls /\ [][NextCalls]_vars

\* the rule keys matched during the call that ended last, in match order
MatchedInLastCall ==
    IF call.result.status = "UnrecognizableInputToken" THEN <<>>
    ELSE [k \in 1..Len(call.result.starts) |->
             match_at(gt, call.result.starts[k], call.result.input_tokens, FALSE)]

\* C16: after any sequence of transliterate calls on one instance,
\* including calls that fail in tokenization or with NoMatchingRule, the
\* last-matched-rules record holds exactly the rule keys matched during the
\* most recent call, in match order.
C16_RecordIsOfLastCall ==
    call.op = "transliterate" => gt.rule_keys = MatchedInLastCall

(***************************************************************************)
(* SpecSteps: two concurrent transliterate calls on the shared instance    *)
(* gt.  call holds the local variables of each call (its own tokens,       *)
(* token_i, output and rule_key); the calls share gt's _input_tokens and   *)
(* _rule_keys.  The steps of a call are its statements that touch the      *)
(* instance: saving the tokens, resetting the record, appending a matched  *)
(* key; the local computation between two of them is part of the step     *)
(* that follows it.  The operators tokenize_step, tokenize_finish and      *)
(* match_step are single iterations of the loops, used by SpecLoops.       *)
(***************************************************************************)
StepsPool == <<TransPool[1], TransPool[3], TransPool[4], RulePool[10]>>

FirstCallInputs == SeqsUpTo({"a", "b"}, MaxInputLen)

SecondCallInputs == {<<"a", "b">>, <<"!">>}

NewCall(input) ==
    [pc |-> "begin", input |-> input, tokens |-> <<>>, token_i |-> 1,
     output |-> <<>>, rule_key |-> None, status |-> "running"]

\* tokens = self.tokenize(input); self._input_tokens = tokens
transliterate_begin(self, th) ==
    LET tokenized == tokenize(self, th.input)
    IN IF tokenized.status # "ok"
       THEN [th EXCEPT !.pc = "done", !.status = tokenized.status]
       ELSE [th EXCEPT !.pc = "reset", !.tokens = tokenized.tokens]

\* the loop test, match_at and the branches on rule_key None
transliterate_match(self, th) ==
    IF ~(th.token_i < Len(th.tokens) - 1)
    THEN [th EXCEPT !.pc = "done", !.status = "ok"]
    ELSE LET rule_key == match_at(self, th.token_i, th.tokens, FALSE)
         IN IF rule_key = None
            THEN IF self.ignore_errors
                 THEN [th EXCEPT !.token_i = th.token_i + 1]
                 ELSE [th EXCEPT !.pc = "done", !.status = "NoMatchingRule",
                                 !.output = <<>>]
            ELSE [th EXCEPT !.pc = "emit", !.rule_key = rule_key]

transliterate_emit_reads_record(self, th) ==
    IF self.rule_keys = <<>>
    THEN [th EXCEPT !.pc = "done", !.status = "IndexError", !.output = <<>>]
    ELSE LET rule == self.rules[self.rule_keys[Len(self.rule_keys)] + 1]
         IN [th EXCEPT !.pc = "match",
                       !.output = th.output
                                    \o onmatch_production(self, th.tokens, th.token_i)
                                    \o rule.production,
                       !.token_i = th.token_i + Len(rule.tokens)]

\* rule = self.rules[rule_key] ... token_i += len(tokens_matched)
transliterate_emit(self, th) ==
    LET rule == self.rules[th.rule_key + 1]
    IN [th EXCEPT !.pc = "match",
                  !.output = th.output
                               \o onmatch_production(self, th.tokens, th.token_i)
                               \o rule.production,
                  !.token_i = th.token_i + Len(rule.tokens)]

tokenize_step_steps_back(self, run) ==
    IF ~(run.pos < Len(run.input)) THEN [run EXCEPT !.pc = "trim"]
    ELSE IF tokenizer_matches(self, run.input, run.pos) # {}
    THEN LET token == tokenizer_match(self, run.input, run.pos)
             end == run.pos + Len(CharsOf(token))
         IN IF is_whitespace(self, token)
            THEN IF run.prev_whitespace /\ self.whitespace.consolidate
                 THEN [run EXCEPT !.pos = end]
                 ELSE [run EXCEPT !.pos = end, !.tokens = Append(run.tokens, token),
                                  !.prev_whitespace = TRUE]
            ELSE [run EXCEPT !.pos = end, !.tokens = Append(run.tokens, token),
                             !.prev_whitespace = FALSE]
    ELSE IF ~self.ignore_errors
    THEN [run EXCEPT !.pc = "done", !.status = "UnrecognizableInputToken",
                     !.tokens = <<>>]
    ELSE [run EXCEPT !.pos = IF run.pos > 0 THEN run.pos - 1 ELSE run.pos + 1]

\* one iteration of the "while match_at < len(input)" loop of tokenize
tokenize_step(self, run) ==
    IF ~(run.pos < Len(run.input)) THEN [run EXCEPT !.pc = "trim"]
    ELSE IF tokenizer_matches(self, run.input, run.pos) # {}
    THEN LET token == tokenizer_match(self, run.input, run.pos)
             end == run.pos + Len(CharsOf(token))
         IN IF is_whitespace(self, token)
            THEN IF run.prev_whitespace /\ self.whitespace.consolidate
                 THEN [run EXCEPT !.pos = end]
                 ELSE [run EXCEPT !.pos = end, !.tokens = Append(run.tokens, token),
                                  !.prev_whitespace = TRUE]
            ELSE [run EXCEPT !.pos = end, !.tokens = Append(run.tokens, token),
                             !.prev_whitespace = FALSE]
    ELSE IF ~self.ignore_errors
    THEN [run EXCEPT !.pc = "done", !.status = "UnrecognizableInputToken",
                     !.tokens = <<>>]
    ELSE [run EXCEPT !.pos = run.pos + 1]

\* the statements of tokenize after the scan
tokenize_finish(self, run) ==
    LET trimmed == IF self.whitespace.consolidate
                   THEN pop_whitespace(self, run.tokens) ELSE run.tokens
    IN [run EXCEPT !.pc = "done", !.status = "ok",
                   !.tokens = Append(trimmed, self.whitespace.default)]

\* one iteration of the "while stack" loop of match_at, or its end
match_step(self, run) ==
    IF run.stack = <<>>
    THEN [run EXCEPT !.pc = "done",
                     !.result = <<IF run.match_all THEN run.matches ELSE None>>]
    ELSE
        LET node_key == Head(run.stack)[1]
            parent_key == Head(run.stack)[2]
            token_i == Head(run.stack)[3]
            curr_node == NodeAt(self.graph, node_key)
            clamp == ~(token_i < Len(run.tokens) - 1)
            next_i == IF clamp THEN token_i ELSE token_i + 1
        IN IF HasKey(curr_node, "accepting")
              /\ match_constraints(self, parent_key, node_key, token_i, run.tokens)
           THEN IF run.match_all
                THEN [run EXCEPT !.stack = Tail(run.stack),
                                 !.matches = Append(run.matches, curr_node.rule_key)]
                ELSE [run EXCEPT !.pc = "done", !.result = <<curr_node.rule_key>>]
           ELSE [run EXCEPT !.stack = append_children(self, run.tokens,
                                          Tail(run.stack), node_key, next_i),
                            !.clamped = run.clamped \/ clamp]

InitSteps ==
    /\ gt \in {Settings(rules,
                        <<onmatch_rule_of(<<"class1">>, <<"class2">>, <<",">>)>>,
                        TRUE, ignore_errors, FALSE) :
                  rules \in RuleListsOf(StepsPool, MaxRules),
                  ignore_errors \in BOOLEAN}
    /\ derived = NoInstance
    /\ call = NoCall

\* two threads call gt.transliterate
StartCalls ==
    /\ gt.status = "ok"
    /\ call.op = "none"
    /\ \E first \in FirstCallInputs, second \in SecondCallInputs :
          call' = [op |-> "threads", t |-> <<NewCall(first), NewCall(second)>>]
    /\ UNCHANGED <<gt, derived>>

CallBegin ==
    \E t \in 1..2 :
        /\ call.op = "threads"
        /\ call.t[t].pc = "begin"
        /\ LET th == transliterate_begin(gt, call.t[t])
           IN /\ call' = [call EXCEPT !.t[t] = th]
              /\ gt' = IF th.pc = "reset"
                       THEN Put(gt, "input_tokens", th.tokens) ELSE gt
        /\ UNCHANGED derived

\* self._rule_keys = []
CallReset ==
    \E t \in 1..2 :
        /\ call.op = "threads"
        /\ call.t[t].pc = "reset"
        /\ call' = [call EXCEPT !.t[t].pc = "match"]
        /\ gt' = [gt EXCEPT !.rule_keys = <<>>]
        /\ UNCHANGED derived

\* ... self._rule_keys.append(rule_key)
CallMatch ==
    \E t \in 1..2 :
        /\ call.op = "threads"
        /\ call.t[t].pc = "match"
        /\ LET th == transliterate_match(gt, call.t[t])
           IN /\ call' = [call EXCEPT !.t[t] = th]
              /\ gt' = IF th.pc = "emit"
                       THEN [gt EXCEPT !.rule_keys = Append(gt.rule_keys, th.rule_key)]
                       ELSE gt
        /\ UNCHANGED derived

CallEmit ==
    \E t \in 1..2 :
        /\ call.op = "threads"
        /\ call.t[t].pc = "emit"
        /\ call' = [call EXCEPT !.t[t] = transliterate_emit(gt, call.t[t])]
        /\ UNCHANGED <<gt, derived>>

NextSteps ==
    \/ Construct \/ SetIgnoreErrors
    \/ StartCalls \/ CallBegin \/ CallReset \/ CallMatch \/ CallEmit

SpecSteps == InitSteps /\ [][NextSteps]_vars

CallsDone == call.op = "threads" /\ \A t \in 1..2 : call.t[t].pc = "done"

\* C17: for any interleaving of two concurrent transliterate calls on one
\* shared instance, each call returns exactly what it returns when run
\* alone (the same output string or the same failure); only the
\* last-matched-rules record can be corrupted, the saved input tokens being
\* those of one of the two calls.
C17_ConcurrentCallsReturnAsAlone ==
    call.op = "threads" =>
        /\ \A t \in 1..2 :
              call.t[t].pc = "done" =>
                  /\ call.t[t].status = transliterate(gt, call.t[t].input).status
                  /\ call.t[t].output = transliterate(gt, call.t[t].input).output
        /\ CallsDone =>
              \/ /\ last_input_tokens(gt).status = "ok"
                 /\ last_input_tokens(gt).tokens
                        \in {call.t[t].tokens : t \in 1..2}
              \/ \A t \in 1..2 : call.t[t].status = "UnrecognizableInputToken"

C17_Witness ==
    /\ CallsDone
    /\ \A t \in 1..2 : call.t[t].status = "ok" /\ call.t[t].output # <<>>
    /\ \A t \in 1..2 :
          gt.rule_keys # transliterate(gt, call.t[t].input).rule_keys

(***************************************************************************)
(* SpecLoops: the loops of tokenize, match_at and transliterate one        *)
(* iteration at a time.  call holds the local variables of the running     *)
(* call: a tokenize scan, a match_at stack loop, or a transliterate call   *)
(* whose tokenize scan (call.scan) and match_at loops (call.match) are     *)
(* themselves run one iteration at a time.                                 *)
(***************************************************************************)
NewScan(self, input) ==
    [op |-> "tokenize_loop", pc |-> "scan", input |-> input, pos |-> 0,
     tokens |-> <<self.whitespace.default>>, prev_whitespace |-> TRUE,
     status |-> "running"]

\* result is <<>> until match_at returns and <<value>> afterwards
NewMatch(self, token_i, tokens, match_all) ==
    [op |-> "match_loop", pc |-> "loop", tokens |-> tokens, token_i |-> token_i,
     match_all |-> match_all,
     stack |-> append_children(self, tokens, <<>>, 0, token_i),
     matches |-> <<>>, result |-> <<>>, clamped |-> FALSE]

NoMatch == [op |-> "match_loop", pc |-> "none"]

\* gt.tokenize(input) up to the scan loop
StartTokenize ==
    /\ gt.status = "ok"
    /\ call.op = "none"
    /\ \E input \in Inputs :
          call' = NewScan(gt, input)
    /\ UNCHANGED <<gt, derived>>

TokenizeStep ==
    /\ call.op = "tokenize_loop"
    /\ call.pc = "scan"
    /\ call' = tokenize_step(gt, call)
    /\ UNCHANGED <<gt, derived>>

TokenizeFinish ==
    /\ call.op = "tokenize_loop"
    /\ call.pc = "trim"
    /\ call' = tokenize_finish(gt, call)
    /\ UNCHANGED <<gt, derived>>

\* gt.match_at(token_i, tokens, match_all) up to the stack loop
StartMatchAt ==
    /\ gt.status = "ok"
    /\ call.op = "none"
    /\ \E tokens \in TokenLists, match_all \in BOOLEAN :
          \E token_i \in 0..(Len(tokens) - 1) :
              call' = NewMatch(gt, token_i, tokens, match_all)
    /\ UNCHANGED <<gt, derived>>

MatchStep ==
    /\ call.op = "match_loop"
    /\ call.pc = "loop"
    /\ call' = match_step(gt, call)
    /\ UNCHANGED <<gt, derived>>

\* gt.transliterate(input) up to the scan loop of tokenize
StartTransliterate ==
    /\ gt.status = "ok"
    /\ call.op = "none"
    /\ \E input \in Inputs :
          call' = [NewCall(input) EXCEPT !.pc = "tokenize"] @@
                  [op |-> "transliterate_loop", scan |-> NewScan(gt, input),
                   match |-> NoMatch]
    /\ UNCHANGED <<gt, derived>>

\* an iteration of the scan loop of self.tokenize(input), or its last
\* statements
TransScan ==
    /\ call.op = "transliterate_loop"
    /\ call.pc = "tokenize"
    /\ call.scan.pc # "done"
    /\ call' = [call EXCEPT !.scan = IF call.scan.pc = "scan"
                                     THEN tokenize_step(gt, call.scan)
                                     ELSE tokenize_finish(gt, call.scan)]
    /\ UNCHANGED <<gt, derived>>

\* tokenize returned or raised; self._input_tokens = tokens;
\* self._rule_keys = []
TransEnter ==
    /\ call.op = "transliterate_loop"
    /\ call.pc = "tokenize"
    /\ call.scan.pc = "done"
    /\ IF call.scan.status # "ok"
       THEN /\ call' = [call EXCEPT !.pc = "done", !.status = call.scan.status]
            /\ UNCHANGED gt
       ELSE /\ call' = [call EXCEPT !.pc = "match", !.tokens = call.scan.tokens]
            /\ gt' = Put([gt EXCEPT !.rule_keys = <<>>],
                         "input_tokens", call.scan.tokens)
    /\ UNCHANGED derived

\* the test of the while loop and the call of self.match_at(token_i, tokens)
TransTest ==
    /\ call.op = "transliterate_loop"
    /\ call.pc = "match"
    /\ call' = IF ~(call.token_i < Len(call.tokens) - 1)
               THEN [call EXCEPT !.pc = "done", !.status = "ok"]
               ELSE [call EXCEPT !.pc = "matching",
                                 !.match = NewMatch(gt, call.token_i,
                                                    call.tokens, FALSE)]
    /\ UNCHANGED <<gt, derived>>

\* an iteration of the stack loop of that match_at
TransMatchStep ==
    /\ call.op = "transliterate_loop"
    /\ call.pc = "matching"
    /\ call.match.pc = "loop"
    /\ call' = [call EXCEPT !.match = match_step(gt, call.match)]
    /\ UNCHANGED <<gt, derived>>

\* match_at returned: the rest of the iteration of the while loop
TransReturn ==
    /\ call.op = "transliterate_loop"
    /\ call.pc = "matching"
    /\ call.match.pc = "done"
    /\ LET rule_key == call.match.result[1]
       IN IF rule_key = None
          THEN /\ call' = IF gt.ignore_errors
                          THEN [call EXCEPT !.pc = "match",
                                            !.token_i = call.token_i + 1]
                          ELSE [call EXCEPT !.pc = "done", !.output = <<>>,
                                            !.status = "NoMatchingRule"]
               /\ UNCHANGED gt
          ELSE /\ call' = transliterate_emit(gt, [call EXCEPT !.rule_key = rule_key])
               /\ gt' = [gt EXCEPT !.rule_keys = Append(gt.rule_keys, rule_key)]
    /\ UNCHANGED derived

LoopSteps ==
    \/ TokenizeStep \/ TokenizeFinish \/ MatchStep
    \/ TransScan \/ TransEnter \/ TransTest \/ TransMatchStep \/ TransReturn

NextLoops ==
    \/ Construct \/ SetIgnoreErrors
    \/ StartTokenize \/ StartMatchAt \/ StartTransliterate
    \/ LoopSteps

\* a call that has started keeps running: an enabled iteration is
\* eventually executed
SpecLoops == InitSteps /\ [][NextLoops]_vars /\ WF_vars(LoopSteps)

\* the step-wise loops return what the functions return
LoopsAgree ==
    /\ (call.op = "tokenize_loop" /\ call.pc = "done") =>
          /\ call.status = tokenize(gt, call.input).status
          /\ call.tokens = tokenize(gt, call.input).tokens
    /\ (call.op = "match_loop" /\ call.pc = "done") =>
          call.result = <<match_at(gt, call.token_i, call.tokens, call.match_all)>>
    /\ (call.op = "transliterate_loop" /\ call.pc = "done") =>
          /\ call.status = transliterate(gt, call.input).status
          /\ call.output = transliterate(gt, call.input).output
          /\ call.status # "UnrecognizableInputToken" =>
                gt.rule_keys = transliterate(gt, call.input).rule_keys

StepsAdvance ==
    /\ (call.op = "tokenize_loop" /\ call.pc = "scan" /\ call'.pc = "scan") =>
          call'.pos > call.pos
    /\ (call.op = "transliterate_loop" /\ call.pc = "tokenize"
            /\ call.scan.pc = "scan" /\ call'.scan.pc = "scan") =>
          call'.scan.pos > call.scan.pos
    /\ (call.op = "transliterate_loop" /\ call.pc = "matching"
            /\ call'.pc = "match") =>
          call'.token_i > call.token_i

LoopsDone == call.op # "none" /\ call.pc = "done"

\* C18: match_at, tokenize and transliterate terminate on every input: the
\* match_at stack loop ends for every position and token list (also at the
\* final sentinel, where the token pointer is clamped), the tokenize scan
\* position strictly increases each iteration, and the transliterate
\* position strictly increases each iteration.
C18_LoopsTerminate ==
    [][StepsAdvance]_vars /\ ((call.op # "none") ~> LoopsDone)

C18_Witness ==
    /\ call.op = "match_loop"
    /\ call.pc = "done"
    /\ call.clamped
    /\ call.token_i = Len(call.tokens) - 1

(***************************************************************************)
(* Rule priority (cost order of the rule list).                            *)
(***************************************************************************)
\* position of a rule in the declared (unsorted) rule list
DeclaredIndex(rule) == CHOOSE i \in 1..Len(RulePool) : RulePool[i] = rule

\* C19: for any two rules, the one with the strictly larger total constraint
\* count has strictly lower cost and hence the smaller rule key in the
\* cost-sorted rule list; rules of equal cost keep their declaration order.
C19_PriorityFollowsSpecificity ==
    \A i, j \in 1..Len(gt.rules) :
        /\ count_of_tokens(gt.rules[i]) > count_of_tokens(gt.rules[j]) =>
              (gt.rules[i].cost < gt.rules[j].cost /\ i < j)
        /\ (gt.rules[i].cost = gt.rules[j].cost
               /\ DeclaredIndex(gt.rules[i]) < DeclaredIndex(gt.rules[j])) => i < j

C19_Witness ==
    /\ gt.status = "ok"
    /\ \E i, j \in 1..Len(gt.rules) :
          /\ i < j
          /\ count_of_tokens(gt.rules[i]) > count_of_tokens(gt.rules[j])
          /\ DeclaredIndex(gt.rules[i]) > DeclaredIndex(gt.rules[j])
    /\ \E i, j \in 1..Len(gt.rules) :
          /\ i < j
          /\ gt.rules[i].cost = gt.rules[j].cost

(***************************************************************************)
(* Pairs examined by check_for_ambiguity.                                  *)
(***************************************************************************)
\* some pair of one equal-count group intersects in every column and no
\* less costly rule covers the intersection
UncoveredIntersectingPair(self) ==
    LET groups == groupby(self.rules, 1)
        matrix == matrix_of(self)
    IN \E g \in 1..Len(groups) :
          \E i, j \in 1..Len(groups[g]) :
              /\ i < j
              /\ LET intersection ==
                         full_intersection(matrix, Len(matrix[1]),
                                           groups[g][i], groups[g][j])
                 IN /\ intersection # <<>>
                    /\ ~covered_by_less_costly(self.rules, matrix, intersection,
                                               groups[g][i], groups[g][j])

\* C20: check_for_ambiguity examines every unordered pair of rules within
\* each equal-constraint-count group; a pair with an empty column is merely
\* skipped and the remaining pairs are still examined, so an uncovered
\* intersecting pair is reported wherever it sits in the group order.
C20_EveryUncoveredPairIsReported ==
    (gt.status # "settings" /\ gt.check_ambiguity /\ gt.rules # <<>>
        /\ UncoveredIntersectingPair(gt))
    => gt.status = "AmbiguousRules"

(***************************************************************************)
(* Rules that resolve an intersecting pair.                                *)
(***************************************************************************)
\* some rule of strictly lower cost than the pair covers the intersection
CoveredByStrictlyCheaper(rules, matrix, intersection, i_index) ==
    \E r_i \in 1..Len(rules) :
        /\ rules[r_i].cost < rules[i_index].cost
        /\ covered_by(intersection, matrix[r_i])

\* a group all of whose pairs intersect in every column (no pair is skipped)
\* with a pair that no strictly cheaper rule covers
UnresolvedPairInIntersectingGroup(self) ==
    LET groups == groupby(self.rules, 1)
        matrix == matrix_of(self)
        meet(g, i, j) == full_intersection(matrix, Len(matrix[1]),
                                           groups[g][i], groups[g][j])
    IN \E g \in 1..Len(groups) :
          /\ \A i, j \in 1..Len(groups[g]) : i < j => meet(g, i, j) # <<>>
          /\ \E i, j \in 1..Len(groups[g]) :
                /\ i < j
                /\ ~CoveredByStrictlyCheaper(self.rules, matrix, meet(g, i, j),
                                             groups[g][i])

\* C21: an intersecting equal-cost pair counts as resolved only when a rule
\* of strictly lower cost covers the intersection in every column; a third
\* rule of the same cost never resolves it, so three equal-cost rules with
\* the same pattern are reported as ambiguous.
C21_OnlyStrictlyCheaperRuleResolves ==
    (gt.status # "settings" /\ gt.check_ambiguity /\ gt.rules # <<>>
        /\ UnresolvedPairInIntersectingGroup(gt))
    => gt.status = "AmbiguousRules"

(***************************************************************************)
(* match_at on rules with constraint windows.  The rules put windows at    *)
(* both sentinels, before index 0 and past the final sentinel, and let a   *)
(* rule consume the final sentinel.                                        *)
(***************************************************************************)
MatchPool ==
    << transliteration_rule_of(<<"A">>, <<>>, <<>>, <<"a">>, <<>>, <<>>),
       transliteration_rule_of(<<"P">>, <<>>, <<"b">>, <<"a">>, <<>>, <<>>),
       transliteration_rule_of(<<"A", "*">>, <<"wb">>, <<"a">>, <<"a">>, <<"a">>, <<"wb">>),
       transliteration_rule_of(<<"S">>, <<>>, <<" ">>, <<"a", " ">>, <<>>, <<>>),
       transliteration_rule_of(<<"T">>, <<>>, <<>>, <<"a", " ">>, <<" ">>, <<>>),
       transliteration_rule_of(<<"W">>, <<>>, <<>>, <<"a">>, <<>>, <<"wb">>),
       transliteration_rule_of(<<"V">>, <<"wb">>, <<>>, <<"a">>, <<>>, <<>>),
       transliteration_rule_of(<<"X">>, <<>>, <<>>, <<"a">>, <<" ">>, <<"any">>),
       transliteration_rule_of(<<"Y">>, <<"any">>, <<" ">>, <<"a">>, <<>>, <<>>),
       transliteration_rule_of(<<"Z">>, <<>>, <<>>, <<" ", " ">>, <<>>, <<>>) >>

MatchTokenLists ==
    {<<WhitespaceDefault>> \o mid \o <<WhitespaceDefault>> :
        mid \in SeqsUpTo(TokenSet, MaxInterior + 1)}

InitMatch ==
    /\ gt \in {Settings(rules, <<>>, TRUE, FALSE, FALSE) :
                  rules \in RuleListsOf(MatchPool, MaxRules)}
    /\ derived = NoInstance
    /\ call = NoCall

\* gt.match_at(token_i, tokens, match_all) on a sentinel-bounded token list
MatchAtWindow ==
    /\ gt.status = "ok"
    /\ call.op = "none"
    /\ \E tokens \in MatchTokenLists, match_all \in BOOLEAN :
          \E token_i \in 0..(Len(tokens) - 1) :
              call' = [op |-> "match_at", token_i |-> token_i, tokens |-> tokens,
                       match_all |-> match_all,
                       result |-> match_at(gt, token_i, tokens, match_all)]
    /\ UNCHANGED <<gt, derived>>

NextMatch == Construct \/ MatchAtWindow

SpecMatch == InitMatch /\ [][NextMatch]_vars

\* rule.tokens are the tokens at p .. p + len(rule.tokens) - 1
Spells(rule, p, tokens) ==
    /\ p + Len(rule.tokens) <= Len(tokens)
    /\ \A k \in 1..Len(rule.tokens) : TokAt(tokens, p + k - 1) = rule.tokens[k]

\* [prev_classes][prev_tokens] ends at p - 1, [next_tokens][next_classes]
\* starts at p + len(rule.tokens)
LayoutHolds(self, rule, p, tokens) ==
    LET after == p + Len(rule.tokens)
    IN /\ WindowHolds(self, tokens, p - Len(rule.prev_tokens),
                      rule.prev_tokens, FALSE)
       /\ WindowHolds(self, tokens,
                      p - Len(rule.prev_tokens) - Len(rule.prev_classes),
                      rule.prev_classes, TRUE)
       /\ WindowHolds(self, tokens, after, rule.next_tokens, FALSE)
       /\ WindowHolds(self, tokens, after + Len(rule.next_tokens),
                      rule.next_classes, TRUE)

Accepted(rule_key) ==
    \E k \in 1..Len(call.result) : call.result[k] = rule_key

\* the rule keys match_at returned, in either mode
Returned ==
    IF call.match_all THEN {call.result[k] : k \in 1..Len(call.result)}
    ELSE IF call.result = None THEN {} ELSE {call.result}

\* C22: a rule node reached after consuming rule.tokens from position p is
\* accepted iff every present constraint holds on the contiguous layout
\* [prev_classes][prev_tokens] ending at p - 1 and [next_tokens][next_classes]
\* starting at p + len(rule.tokens); absent constraints hold vacuously.
C22_AcceptedIffLayoutHolds ==
    (call.op = "match_at" /\ call.match_all) =>
        \A r \in 1..Len(gt.rules) :
            Spells(gt.rules[r], call.token_i, call.tokens) =>
                (Accepted(r - 1)
                    <=> LayoutHolds(gt, gt.rules[r], call.token_i, call.tokens))

(***************************************************************************)
(* The stack entries popped by match_at and the _match_tokens calls made   *)
(* for them.                                                               *)
(***************************************************************************)
RECURSIVE match_visits(_, _, _, _, _)
\* the (node_key, parent_key, token_i) entries popped by the "while stack"
\* loop, in order
match_visits(self, tokens, match_all, stack, visits) ==
    IF stack = <<>> THEN visits
    ELSE
        LET node_key == Head(stack)[1]
            parent_key == Head(stack)[2]
            token_i == Head(stack)[3]
            curr_node == NodeAt(self.graph, node_key)
            next_i == IF token_i < Len(tokens) - 1 THEN token_i + 1 ELSE token_i
        IN IF HasKey(curr_node, "accepting")
              /\ match_constraints(self, parent_key, node_key, token_i, tokens)
           THEN IF match_all
                THEN match_visits(self, tokens, match_all, Tail(stack),
                                  Append(visits, Head(stack)))
                ELSE Append(visits, Head(stack))
           ELSE match_visits(self, tokens, match_all,
                             append_children(self, tokens, Tail(stack), node_key,
                                             next_i),
                             Append(visits, Head(stack)))

window_of_unchecked_prev(self, source, target, token_i, c_type) ==
    LET constraints == self.graph.edge[<<source, target>>].constraints
        num_tokens == Len(NodeAt(self.graph, target).rule.tokens)
        c_value == constraints[c_type]
    IN CASE c_type = "prev_tokens" ->
              [start_i |-> token_i - num_tokens - Len(c_value),
               c_value |-> c_value, check_prev |-> FALSE, check_next |-> FALSE,
               by_class |-> FALSE]
         [] c_type = "next_tokens" ->
              [start_i |-> token_i, c_value |-> c_value, check_prev |-> FALSE,
               check_next |-> TRUE, by_class |-> FALSE]
         [] c_type = "prev_classes" ->
              [start_i |-> token_i - num_tokens
                              - Len(Get(constraints, "prev_tokens"))
                              - Len(c_value),
               c_value |-> c_value, check_prev |-> FALSE, check_next |-> FALSE,
               by_class |-> TRUE]
         [] c_type = "next_classes" ->
              [start_i |-> token_i + Len(Get(constraints, "next_tokens")),
               c_value |-> c_value, check_prev |-> FALSE, check_next |-> TRUE,
               by_class |-> TRUE]

\* the arguments _match_constraints passes to _match_tokens for c_type
window_of(self, source, target, token_i, c_type) ==
    LET constraints == self.graph.edge[<<source, target>>].constraints
        num_tokens == Len(NodeAt(self.graph, target).rule.tokens)
        c_value == constraints[c_type]
    IN CASE c_type = "prev_tokens" ->
              [start_i |-> token_i - num_tokens - Len(c_value),
               c_value |-> c_value, check_prev |-> TRUE, check_next |-> FALSE,
               by_class |-> FALSE]
         [] c_type = "next_tokens" ->
              [start_i |-> token_i, c_value |-> c_value, check_prev |-> FALSE,
               check_next |-> TRUE, by_class |-> FALSE]
         [] c_type = "prev_classes" ->
              [start_i |-> token_i - num_tokens
                              - Len(Get(constraints, "prev_tokens"))
                              - Len(c_value),
               c_value |-> c_value, check_prev |-> TRUE, check_next |-> FALSE,
               by_class |-> TRUE]
         [] c_type = "next_classes" ->
              [start_i |-> token_i + Len(Get(constraints, "next_tokens")),
               c_value |-> c_value, check_prev |-> FALSE, check_next |-> TRUE,
               by_class |-> TRUE]

WindowPasses(self, w, tokens) ==
    match_tokens(self, w.start_i, w.c_value, tokens, w.check_prev, w.check_next,
                 w.by_class)

\* the order in which constraints.items() yields the constraint kinds of an
\* edge: the order in which the graph builder stores them
constraint_kinds == <<"prev_classes", "prev_tokens", "next_tokens", "next_classes">>

\* the _match_tokens calls of one _match_constraints call: the kinds of the
\* edge in order, up to and including the first that fails ("return False")
windows_of_edge(self, source, target, token_i, tokens) ==
    LET constraints == Get(self.graph.edge[<<source, target>>], "constraints")
        present(c_type) == c_type \in DOMAIN constraints
        kinds == SelectSeq(constraint_kinds, present)
        w(j) == window_of(self, source, target, token_i, kinds[j])
    IN {w(j) : j \in {j \in 1..Len(kinds) :
                         \A i \in 1..(j - 1) : WindowPasses(self, w(i), tokens)}}

\* the windows checked for the accepting nodes popped by
\* match_at(token_i, tokens, match_all)
window_checks(self, token_i, tokens, match_all) ==
    LET visits == match_visits(self, tokens, match_all,
                               append_children(self, tokens, <<>>, 0, token_i),
                               <<>>)
    IN UNION {windows_of_edge(self, visits[k][2], visits[k][1], visits[k][3],
                              tokens) :
              k \in {k \in 1..Len(visits) :
                         HasKey(NodeAt(self.graph, visits[k][1]), "accepting")}}

WindowsChecked == window_checks(gt, call.token_i, call.tokens, call.match_all)

\* the bounds checks of _match_tokens on the windows the code computes from
\* its token pointer: one that starts before index 0 or ends past the list
\* fails, and one that passes lies inside the list
CheckedWindowsStayInside ==
    call.op = "match_at" =>
        \A w \in WindowsChecked :
            /\ w.start_i < 0 => ~WindowPasses(gt, w, call.tokens)
            /\ w.start_i + Len(w.c_value) > Len(call.tokens) =>
                  ~WindowPasses(gt, w, call.tokens)
            /\ WindowPasses(gt, w, call.tokens) =>
                  \A i \in 0..(Len(w.c_value) - 1) :
                      w.start_i + i \in 0..(Len(call.tokens) - 1)

\* C23: constraint windows never wrap or overrun: for a rule whose tokens
\* stand at p, a previous window that would start before index 0 makes the
\* constraint fail, and a next window, which starts just after the match
\* end p + len(rule.tokens), makes it fail when it would extend past the
\* final sentinel; so a returned rule has all its windows inside the list.
C23_WindowsNeverWrapOrOverrun ==
    call.op = "match_at" =>
        \A r \in Returned :
            LET rule == gt.rules[r + 1]
                before == Len(rule.prev_classes) + Len(rule.prev_tokens)
                after == Len(rule.next_tokens) + Len(rule.next_classes)
                match_end == call.token_i + Len(rule.tokens)
            IN Spells(rule, call.token_i, call.tokens) =>
                  /\ before > 0 => call.token_i - before >= 0
                  /\ after > 0 => match_end + after <= Len(call.tokens)

(***************************************************************************)
(* Where on-match productions are inserted.                                *)
(***************************************************************************)
\* C24: an on-match production is inserted only at a boundary between two
\* consecutive rule matches: never before the first matched rule's
\* production, nor before a match that directly follows a position skipped
\* under ignore_errors.
C24_OnMatchOnlyBetweenConsecutiveMatches ==
    (call.op = "transliterate" /\ call.result.status = "ok") =>
        \A k \in 1..Len(call.result.starts) :
            onmatch_production(Target, call.result.input_tokens,
                               call.result.starts[k]) # <<>>
            => /\ k > 1
               /\ call.result.starts[k] = SpanEnd(Target, call.result, k - 1)

(***************************************************************************)
(* The instance after a call of tokenize, match_at or transliterate.       *)
(***************************************************************************)
\* tokenize and match_at assign no attribute of self
after_tokenize(self, input) == self

after_match_at(self, token_i, tokens, match_all) == self

after_transliterate_clears_lookup(self, input) ==
    LET result == transliterate(self, input)
    IN [records_after(self, result) EXCEPT !.onmatch_rules_lookup = <<>>]

\* transliterate assigns self._input_tokens and self._rule_keys
after_transliterate(self, input) ==
    LET result == transliterate(self, input)
    IN records_after(self, result)

TokenizeOn ==
    /\ gt.status = "ok"
    /\ call.op = "none"
    /\ \E input \in Inputs :
          /\ call' = [op |-> "tokenize", input |-> input,
                      result |-> tokenize(gt, input)]
          /\ gt' = after_tokenize(gt, input)
    /\ UNCHANGED derived

MatchAtOn ==
    /\ gt.status = "ok"
    /\ call.op = "none"
    /\ \E tokens \in TokenLists, match_all \in BOOLEAN :
          \E token_i \in 0..(Len(tokens) - 1) :
              /\ call' = [op |-> "match_at", token_i |-> token_i,
                          tokens |-> tokens, match_all |-> match_all,
                          result |-> match_at(gt, token_i, tokens, match_all)]
              /\ gt' = after_match_at(gt, token_i, tokens, match_all)
    /\ UNCHANGED derived

TransliterateOn ==
    /\ gt.status = "ok"
    /\ call.op = "none"
    /\ \E input \in Inputs :
          /\ call' = [op |-> "transliterate", input |-> input,
                      result |-> transliterate(gt, input)]
          /\ gt' = after_transliterate(gt, input)
    /\ UNCHANGED derived

NextFrame ==
    Construct \/ SetIgnoreErrors \/ TokenizeOn \/ MatchAtOn \/ TransliterateOn

SpecFrame == InitSteps /\ [][NextFrame]_vars

CallStep == call.op = "none" /\ call'.op # "none"

\* C25: tokenize, match_at and transliterate leave the rule list, the
\* token/class maps, the matching graph, the on-match rules and the
\* on-match index unchanged; transliterate writes only the last-input-tokens
\* and last-matched-rules records.
C25_CallsWriteOnlyTheTwoRecords ==
    [][CallStep =>
          /\ gt'.rules = gt.rules
          /\ gt'.tokens = gt.tokens
          /\ gt'.tokens_by_class = gt.tokens_by_class
          /\ gt'.graph = gt.graph
          /\ gt'.onmatch_rules = gt.onmatch_rules
          /\ gt'.onmatch_rules_lookup = gt.onmatch_rules_lookup
          /\ call'.op # "transliterate" => gt' = gt
          /\ DOMAIN gt' \subseteq DOMAIN gt \cup {"input_tokens"}
          /\ \A k \in DOMAIN gt :
                k \notin {"input_tokens", "rule_keys"} => gt'[k] = gt[k]]_vars

C25_Witness ==
    /\ call.op = "transliterate"
    /\ call.result.status = "ok"
    /\ gt.rule_keys # <<>>
    /\ last_input_tokens(gt).status = "ok"
    /\ gt.input_tokens = call.result.input_tokens
    /\ gt.onmatch_rules_lookup # <<>>

(***************************************************************************)
(* The sentinels of a tokenized input.                                     *)
(***************************************************************************)
\* C26: every token list returned by tokenize has length at least 2 and has
\* the whitespace default token as its first and last element, for every
\* input and both values of consolidate; with consolidate false the list is
\* exactly [default] + every recognized token in input order + [default].
C26_TokenizeAddsBothSentinels ==
    (call.op = "tokenize" /\ call.result.status = "ok") =>
        /\ Len(call.result.tokens) >= 2
        /\ call.result.tokens[1] = gt.whitespace.default
        /\ call.result.tokens[Len(call.result.tokens)] = gt.whitespace.default
        /\ ~gt.whitespace.consolidate =>
              call.result.tokens = <<gt.whitespace.default>>
                                      \o Recognizable(gt, call.input)
                                      \o <<gt.whitespace.default>>

C26_Witness ==
    /\ call.op = "tokenize"
    /\ call.result.status = "ok"
    /\ ~gt.whitespace.consolidate
    /\ Len(call.input) >= 2
    /\ \A i \in 1..Len(call.input) : IsWhitespaceChar(gt, call.input[i])
    /\ Len(call.result.tokens) = Len(call.input) + 2

(***************************************************************************)
(* transliterate with ignore_errors.                                       *)
(***************************************************************************)
\* what one match at position p adds to the output
MatchOutput(self, tokens, p) ==
    onmatch_production(self, tokens, p)
        \o self.rules[match_at(self, p, tokens, FALSE) + 1].production

RECURSIVE OutputsAt(_, _, _, _)
\* the outputs of the matches at starts[k], starts[k + 1], ... in order
OutputsAt(self, tokens, starts, k) ==
    IF k > Len(starts) THEN <<>>
    ELSE MatchOutput(self, tokens, starts[k]) \o OutputsAt(self, tokens, starts, k + 1)

\* C27: with ignore_errors enabled transliterate returns a string for every
\* input and every rule set (it fails neither with UnrecognizableInputToken
\* nor with NoMatchingRule), and the string is the concatenation of the
\* outputs for the positions where a rule matched.
C27_IgnoreErrorsAlwaysReturns ==
    (call.op = "transliterate" /\ Target.ignore_errors) =>
        LET result == call.result
            tokens == tokenize(Target, call.input).tokens
        IN /\ result.status = "ok"
           /\ result.input_tokens = tokens
           /\ \A k \in 1..Len(result.starts) :
                 /\ result.starts[k] \in 1..(Len(tokens) - 2)
                 /\ match_at(Target, result.starts[k], tokens, FALSE) # None
           /\ \A p \in Uncovered(Target, result) :
                 match_at(Target, p, tokens, FALSE) = None
           /\ result.output = OutputsAt(Target, tokens, result.starts, 1)

C27_Witness ==
    /\ call.op = "transliterate"
    /\ Target.ignore_errors
    /\ call.result.status = "ok"
    /\ HasUnrecognizable(Target, call.input)
    /\ Uncovered(Target, call.result) # {}

(***************************************************************************)
(* What a returned rule key says about the tokens.                         *)
(***************************************************************************)
\* C28: every rule key r returned by match_at(p, tokens), in single mode or
\* in the match_all list, has rules[r].tokens at p .. p + len - 1 inside the
\* list: the final sentinel is never consumed for more than one rule token,
\* and the constraint windows are those of the true match end.
C28_ReturnedRuleSpellsItsTokens ==
    call.op = "match_at" =>
        \A r \in Returned :
            /\ Spells(gt.rules[r + 1], call.token_i, call.tokens)
            /\ LayoutHolds(gt, gt.rules[r + 1], call.token_i, call.tokens)

(***************************************************************************)
(* The two modes of match_at.                                              *)
(***************************************************************************)
SingleMatch == match_at(gt, call.token_i, call.tokens, FALSE)

AllMatches == match_at(gt, call.token_i, call.tokens, TRUE)

\* C29: for every position and token sequence, single-match mode returns
\* none iff match_all mode returns the empty list, and otherwise returns the
\* first element of the match_all list; the match_all list contains no rule
\* key twice.
C29_MatchModesAgree ==
    call.op = "match_at" =>
        /\ call.result = IF call.match_all THEN AllMatches ELSE SingleMatch
        /\ SingleMatch = None <=> AllMatches = <<>>
        /\ AllMatches # <<>> => SingleMatch = AllMatches[1]
        /\ \A i, j \in 1..Len(AllMatches) :
              AllMatches[i] = AllMatches[j] => i = j

C29_Witness ==
    /\ call.op = "match_at"
    /\ ~call.match_all
    /\ Len(AllMatches) >= 2
    /\ call.result = AllMatches[1]
    /\ AllMatches[1] # AllMatches[Len(AllMatches)]

(***************************************************************************)
(* The token indices read by match_at, by the constraint windows and by    *)
(* the on-match windows of transliterate.  An index is kept as the code    *)
(* computes it, so a negative or past-the-end index shows as such.         *)
(***************************************************************************)
\* the indices "tokens[start_i + i]" read by _match_tokens: none when a
\* boundary check returns first, else up to the first element that differs
reads_of_window(self, w, tokens) ==
    LET element_ok(i) ==
            LET idx == w.start_i + i
            IN /\ idx >= 0 - Len(tokens)
               /\ idx < Len(tokens)
               /\ IF w.by_class
                  THEN w.c_value[i + 1] \in self.tokens[TokAt(tokens, idx)]
                  ELSE TokAt(tokens, idx) = w.c_value[i + 1]
    IN IF w.check_prev /\ w.start_i < 0 THEN {}
       ELSE IF w.check_next /\ w.start_i + Len(w.c_value) > Len(tokens) THEN {}
       ELSE {w.start_i + i :
                i \in {i \in 0..(Len(w.c_value) - 1) :
                          \A j \in 0..(i - 1) : element_ok(j)}}

\* the indices read by match_at(token_i, tokens, match_all): tokens[token_i]
\* in each _append_children on a node with children, and the windows
\* _match_constraints checks for the accepting nodes popped
match_at_reads(self, token_i, tokens, match_all) ==
    LET visits == match_visits(self, tokens, match_all,
                               append_children(self, tokens, <<>>, 0, token_i),
                               <<>>)
        has_children(node_key) ==
            DOMAIN Get(NodeAt(self.graph, node_key), "ordered_children") # {}
        accepted(v) ==
            /\ HasKey(NodeAt(self.graph, v[1]), "accepting")
            /\ match_constraints(self, v[2], v[1], v[3], tokens)
        next_i(v) == IF v[3] < Len(tokens) - 1 THEN v[3] + 1 ELSE v[3]
    IN (IF has_children(0) THEN {token_i} ELSE {})
       \cup {next_i(visits[k]) :
                k \in {k \in 1..Len(visits) :
                          ~accepted(visits[k]) /\ has_children(visits[k][1])}}
       \cup UNION {reads_of_window(self, w, tokens) :
                      w \in window_checks(self, token_i, tokens, match_all)}

\* the indices read by the on-match lookup and windows at a match at
\* token_i: the candidates are tried in order up to the first that applies
\* ("break"), and the next window of a candidate is checked only when its
\* previous window passes ("and")
onmatch_reads(self, tokens, token_i) ==
    IF self.onmatch_rules = <<>> THEN {}
    ELSE LET prev_t == TokAt(tokens, token_i - 1)
             curr_t == TokAt(tokens, token_i)
             curr_match_rules == Get(Get(self.onmatch_rules_lookup, curr_t), prev_t)
             onmatch(k) == self.onmatch_rules[curr_match_rules[k] + 1]
             prev_window(k) ==
                 [start_i |-> token_i - Len(onmatch(k).prev_classes),
                  c_value |-> onmatch(k).prev_classes, check_prev |-> TRUE,
                  check_next |-> FALSE, by_class |-> TRUE]
             next_window(k) ==
                 [start_i |-> token_i, c_value |-> onmatch(k).next_classes,
                  check_prev |-> FALSE, check_next |-> TRUE, by_class |-> TRUE]
             applies(k) == /\ WindowPasses(self, prev_window(k), tokens)
                           /\ WindowPasses(self, next_window(k), tokens)
             tried == {k \in 1..Len(curr_match_rules) :
                          \A j \in 1..(k - 1) : ~applies(j)}
         IN {token_i - 1, token_i}
            \cup UNION {reads_of_window(self, prev_window(k), tokens) : k \in tried}
            \cup UNION {reads_of_window(self, next_window(k), tokens) :
                           k \in {k \in tried :
                                     WindowPasses(self, prev_window(k), tokens)}}

RECURSIVE transliterate_reads(_, _, _, _)
\* the indices read during the "while token_i < len(tokens) - 1" loop
transliterate_reads(self, tokens, token_i, reads) ==
    IF ~(token_i < Len(tokens) - 1) THEN reads
    ELSE LET rule_key == match_at(self, token_i, tokens, FALSE)
             seen == reads \cup match_at_reads(self, token_i, tokens, FALSE)
         IN IF rule_key = None
            THEN IF self.ignore_errors
                 THEN transliterate_reads(self, tokens, token_i + 1, seen)
                 ELSE seen
            ELSE transliterate_reads(self, tokens,
                     token_i + Len(self.rules[rule_key + 1].tokens),
                     seen \cup onmatch_reads(self, tokens, token_i))

ReadsPool ==
    << MatchPool[1], MatchPool[4], MatchPool[5], MatchPool[8], MatchPool[9],
       MatchPool[10] >>

ReadsOnMatch ==
    {<<onmatch_rule_of(<<"any", "any">>, <<"class1">>, <<";">>),
       onmatch_rule_of(<<"class1">>, <<"class2", "any">>, <<",">>)>>}

InitReads ==
    /\ gt \in {Settings(rules, onmatch_rules, consolidate, ignore_errors, FALSE) :
                  rules \in RuleListsOf(ReadsPool, MaxRules),
                  onmatch_rules \in ReadsOnMatch,
                  consolidate \in BOOLEAN,
                  ignore_errors \in BOOLEAN}
    /\ derived = NoInstance
    /\ call = NoCall

NextReads ==
    Construct \/ SetIgnoreErrors \/ MatchAtWindow \/ TransliterateOn

SpecReads == InitReads /\ [][NextReads]_vars

InList(tokens) == 0..(Len(tokens) - 1)

\* C30: for every sentinel-bounded token list and every position
\* 0 <= p <= len(tokens) - 1, match_at and the constraint and on-match
\* window checks read only token indices in 0..len(tokens)-1: each popped
\* entry has token_i < len(tokens), and no negative or past-the-end index
\* is read.
C30_ReadsStayInsideTheList ==
    /\ call.op = "match_at" =>
          /\ match_at_reads(gt, call.token_i, call.tokens, call.match_all)
                \subseteq InList(call.tokens)
          /\ LET visits == match_visits(gt, call.tokens, call.match_all,
                               append_children(gt, call.tokens, <<>>, 0,
                                               call.token_i), <<>>)
             IN \A k \in 1..Len(visits) : visits[k][3] < Len(call.tokens)
    /\ (call.op = "transliterate"
            /\ call.result.status # "UnrecognizableInputToken") =>
          transliterate_reads(gt, call.result.input_tokens, 1, {})
              \subseteq InList(call.result.input_tokens)

C30_Witness ==
    /\ call.op = "match_at"
    /\ call.token_i = Len(call.tokens) - 1
    /\ Returned # {}
    /\ Len(match_visits(gt, call.tokens, call.match_all,
                        append_children(gt, call.tokens, <<>>, 0, call.token_i),
                        <<>>)) >= 3

====
